---- MODULE Spec2Model ----
(***************************************************************************)
(* DMSApp: the session holder (AuthContext.js), the navigation shell       *)
(* (App.js), the login screen, the home screen and the document service    *)
(* (DocumentService.js), as one state machine.                             *)
(*                                                                         *)
(* JavaScript runs to completion between awaits, so every action below is  *)
(* one synchronous run of a handler: from a user event or a resolved       *)
(* promise up to the next await.  AsyncStorage is the native module: its   *)
(* calls are queued, executed in order, and their promises are settled in  *)
(* order.                                                                  *)
(***************************************************************************)
EXTENDS Integers, Sequences, FiniteSets, TLC

\* ------------------------------------------------------------------ bounds
MaxPending == 2
MaxCalls == 1

\* ------------------------------------------------------------------ values
\* JavaScript null (AsyncStorage.getItem of a missing key, useState(null)).
Null == "<null>"
\* Bearer tokens the server may hand out.
Tokens == {"abc", "xyz"}
TokenValues == Tokens \cup {Null, ""}

\* JavaScript truthiness of a string-or-null value: `!userToken`, `userToken ?`.
Truthy(v) == v # Null /\ v # ""

NoAlert == [title |-> "", message |-> ""]

\* What the user can type on the login screen.
Mobiles == {"9999999999"}
Otps == {"123456"}
ServerMessages == {"server says no"}

\* What the server may answer to a document request.
Statuses == {200, 500}
DataLists == {<<>>, <<"d2", "d1">>}

\* Messages of errors that come from outside the repository's code.
StorageError == "AsyncStorage failure"
NetworkFailed == "Network request failed"
JsonParseError == "JSON Parse error"
NullDataError == "Cannot read property of null"

VARIABLES
    store,        \* device storage: the value under key 'userToken'
    storageQ,     \* AsyncStorage calls whose promise has not been delivered yet
    userToken,    \* AuthProvider state
    isLoading,    \* AuthProvider state
    stack,        \* screens mounted by the Stack.Navigator, bottom first
    alert,        \* the Alert.alert dialog the last step raised (NoAlert: none)
    login,        \* LoginScreen state and the position of its handler
    calls,        \* DocumentService calls in flight
    settled,      \* the DocumentService call that settled in the last step, and how
    upload,       \* UploadScreen state
    search,       \* SearchScreen state
    done,         \* the AuthProvider operation that completed in the last step
    prior,        \* the signIn / signOut that had just completed when the
                  \* process was restarted, kept until the new load is over
    mounted,      \* the screen instance whose form is followed field by field
    loginForm,    \* that LoginScreen's otpSent and loading
    uploadForm,   \* that UploadScreen's fields
    searchForm,   \* that SearchScreen's fields
    downloading,  \* that PreviewScreen's flag
    pending,      \* the requests of that instance not yet resolved, per control
    posted,       \* the request that instance sent in the last step
    last          \* the handler of that instance that ran in the last step
                  \* (tag additions and the handlers of requests)

appVars == <<store, storageQ, userToken, isLoading, stack, alert,
             login, calls, settled, upload, search, done, prior>>

formVars == <<mounted, loginForm, uploadForm, searchForm, downloading,
              pending, posted, last>>

vars == <<store, storageQ, userToken, isLoading, stack, alert,
          login, calls, settled, upload, search, done, prior,
          mounted, loginForm, uploadForm, searchForm, downloading,
          pending, posted, last>>

docVars == <<calls, upload, search>>

\* No DocumentService call settled in the last step.
NoSettled ==
    [op |-> "none", kind |-> "none", message |-> "", sent |-> FALSE,
     held |-> FALSE, status |-> 0, serverMessage |-> Null,
     cause |-> "none", verbatim |-> FALSE, caller |-> "none"]

\* No AuthProvider operation completed in the last step.
NoDone ==
    [op |-> "none", status |-> "none", arg |-> Null, tokenBefore |-> Null,
     shellBefore |-> "none", rejects |-> FALSE, writeQueued |-> FALSE]

\* A step that completes neither a service call nor an AuthProvider operation.
Quiet == settled' = NoSettled /\ done' = NoDone /\ prior' = NoDone

\* ------------------------------------------------------------- AsyncStorage
StorageOp(kind, owner, call, arg) ==
    [kind |-> kind, owner |-> owner, call |-> call, arg |-> arg,
     status |-> "pending", value |-> Null, held |-> FALSE]

\* The first queued call the native side has not executed yet (0 if none).
FirstPending ==
    IF \E i \in 1..Len(storageQ) : storageQ[i].status = "pending"
    THEN CHOOSE i \in 1..Len(storageQ) :
            /\ storageQ[i].status = "pending"
            /\ \A j \in 1..(i - 1) : storageQ[j].status # "pending"
    ELSE 0

\* A faulty store for comparison: removeItem under another key leaves the
\* stored value alone.
StoreAfterWrongKeyRemoval(op, cur) ==
    IF op.kind = "setItem" THEN op.arg ELSE cur

\* A faulty store for comparison: reading the key consumes it.
StoreAfterReadConsumes(op, cur) ==
    CASE op.kind = "setItem" -> op.arg
      [] OTHER -> Null

\* What a successful native call leaves under the key.
StoreAfter(op, cur) ==
    CASE op.kind = "setItem" -> op.arg
      [] op.kind = "removeItem" -> Null
      [] OTHER -> cur

\* The native module executes the oldest pending call: it either succeeds
\* (reads or changes the stored value) or fails and leaves the store alone.
AsyncStorageExec ==
    /\ FirstPending # 0
    /\ LET i == FirstPending
           op == storageQ[i]
       IN \E ok \in BOOLEAN :
            /\ store' = IF ok THEN StoreAfter(op, store) ELSE store
            /\ storageQ' = [storageQ EXCEPT ![i] =
                  [op EXCEPT !.status = IF ok THEN "resolved" ELSE "rejected",
                             !.value = IF ok /\ op.kind = "getItem"
                                       THEN store ELSE Null,
                             !.held = op.kind = "getItem" /\ Truthy(store)]]
    /\ settled' = NoSettled
    /\ done' = NoDone
    /\ prior' = IF storageQ[FirstPending].owner = "loadToken" THEN prior ELSE NoDone
    /\ alert' = NoAlert
    /\ UNCHANGED <<userToken, isLoading, stack, login, docVars>>
    /\ UNCHANGED formVars

\* The promise at the head of the queue is settled and ready for its awaiter.
Settled(owner) ==
    /\ Len(storageQ) > 0
    /\ Head(storageQ).owner = owner
    /\ Head(storageQ).status # "pending"

CanEnqueue == Len(storageQ) < MaxPending

\* ------------------------------------------------------------------- shell
\* AppContent: which branch it renders.
\* A faulty shell for comparison: AppContent without the isLoading check.
AppContentNoLoadingCheck(token, loading) ==
    IF Truthy(token) THEN "Authenticated" ELSE "Unauthenticated"

AppContent(token, loading) ==
    IF loading THEN "Loading"
    ELSE IF Truthy(token) THEN "Authenticated" ELSE "Unauthenticated"

shell == AppContent(userToken, isLoading)

AuthScreens == {"Home", "Upload", "Search", "Preview"}

Mounted(s, st) == \E i \in 1..Len(st) : st[i] = s

\* A faulty navigator for comparison: routes survive a change of the set of
\* defined screens.
NavigatorKeepsRoutes(st, token, loading) ==
    CASE loading -> <<>>
      [] st # <<>> -> st
      [] Truthy(token) -> <<"Home">>
      [] OTHER -> <<"Login">>

\* A faulty navigator for comparison: the login screen stays mounted under
\* the home screen.
NavigatorKeepsLogin(st, token, loading) ==
    CASE loading -> <<>>
      [] Truthy(token) ->
            IF st # <<>> /\ st[1] = "Login" /\ Len(st) > 1
            THEN st ELSE <<"Login", "Home">>
      [] OTHER -> <<"Login">>

\* The Stack.Navigator under AppContent: no navigator while loading; when the
\* set of defined screens changes, the routes that are no longer defined are
\* dropped and the first screen of the new set is shown.
Navigator(st, token, loading) ==
    CASE AppContent(token, loading) = "Loading" -> <<>>
      [] AppContent(token, loading) = "Authenticated" ->
            IF st # <<>> /\ \A i \in 1..Len(st) : st[i] \in AuthScreens
            THEN st ELSE <<"Home">>
      [] OTHER -> <<"Login">>

\* useState initial values of LoginScreen.
LoginInit ==
    [mobileNumber |-> "", otp |-> "", otpSent |-> FALSE, loading |-> FALSE,
     pc |-> "idle"]

LoginMounted == Mounted("Login", stack)

\* The state of the login screen after a step that leaves the stack as st:
\* a screen that is (re)mounted or unmounted starts from its initial state.
LoginAfter(st, updated) ==
    IF Mounted("Login", st) /\ LoginMounted THEN updated ELSE LoginInit

\* useState initial values of UploadScreen and SearchScreen.
UploadInit == [loading |-> FALSE, availableTags |-> <<>>]
SearchInit == [loading |-> FALSE, availableTags |-> <<>>, searchResults |-> <<>>]

UploadAfter(st, updated) ==
    IF Mounted("Upload", st) /\ Mounted("Upload", stack) THEN updated ELSE UploadInit

SearchAfter(st, updated) ==
    IF Mounted("Search", st) /\ Mounted("Search", stack) THEN updated ELSE SearchInit

\* A DocumentService call: the exported function, the handler awaiting it,
\* whether that handler's screen instance is still mounted, where the call
\* stands, and the token it read.
NoCall ==
    [op |-> "none", caller |-> "none", live |-> FALSE, pc |-> "idle",
     token |-> Null]

ScreenOf(caller) ==
    CASE caller \in {"UploadScreen.getTags", "UploadScreen.handleSubmit"} -> "Upload"
      [] caller = "PreviewScreen.handleDownload" -> "Preview"
      [] OTHER -> "Search"

\* Calls outlive the screen that made them; its setState calls are then lost.
CallsAfter(st, cs) ==
    [c \in DOMAIN cs |->
        IF cs[c].op # "none" /\ ~Mounted(ScreenOf(cs[c].caller), st)
        THEN [cs[c] EXCEPT !.live = FALSE] ELSE cs[c]]

\* ------------------------------------------------------------ AuthProvider
\* The record of an AuthProvider operation completing on the settled call op
\* (writeQueued: a signIn's setItem is queued behind it).
Completed(name, op, rejects) ==
    [op |-> name, status |-> op.status,
     arg |-> IF op.kind = "getItem" THEN op.value ELSE op.arg,
     tokenBefore |-> userToken, shellBefore |-> shell, rejects |-> rejects,
     writeQueued |-> \E i \in 2..Len(storageQ) : storageQ[i].kind = "setItem"]

\* Faulty loadToken variants for comparison: one never calls
\* setUserToken(storedToken); one calls setIsLoading(false) at the end of the
\* try block instead of in finally.
LoadTokenKeepsCurrent(op, cur) == cur

LoadTokenIsLoadingInTry(op) == op.status # "resolved"

\* loadToken, after `await AsyncStorage.getItem`: try / catch / finally.
LoadTokenUserToken(op, cur) ==
    IF op.status = "resolved" THEN op.value ELSE cur

LoadTokenIsLoading(op) == FALSE

LoadTokenResume ==
    /\ Settled("loadToken")
    /\ LET op == Head(storageQ)
       IN /\ userToken' = LoadTokenUserToken(op, userToken)
          /\ isLoading' = LoadTokenIsLoading(op)
    /\ stack' = Navigator(stack, userToken', isLoading')
    /\ login' = LoginAfter(stack', login)
    /\ storageQ' = Tail(storageQ)
    /\ calls' = CallsAfter(stack', calls)
    /\ upload' = UploadAfter(stack', upload)
    /\ search' = SearchAfter(stack', search)
    /\ done' = Completed("loadToken", Head(storageQ), FALSE)
    /\ settled' = NoSettled
    /\ alert' = NoAlert
    /\ UNCHANGED <<store, prior>>
    /\ UNCHANGED formVars

\* signOut, pressed on the home screen: `await AsyncStorage.removeItem`.
SignOutPress ==
    /\ stack # <<>> /\ stack[Len(stack)] = "Home"
    /\ CanEnqueue
    /\ storageQ' = Append(storageQ, StorageOp("removeItem", "signOut", 0, Null))
    /\ alert' = NoAlert
    /\ UNCHANGED <<store, userToken, isLoading, stack, login, docVars>>
    /\ Quiet
    /\ UNCHANGED formVars

\* A faulty signOut for comparison: setUserToken(null) after the try block.
SignOutClearsAlways(op, cur) == Null

SignOutUserToken(op, cur) ==
    IF op.status = "resolved" THEN Null ELSE cur

\* Whether the promise signOut returns rejects: its catch takes every error.
SignOutRejects(op) == FALSE

SignOutResume ==
    /\ Settled("signOut")
    /\ LET op == Head(storageQ)
       IN /\ userToken' = SignOutUserToken(op, userToken)
    /\ stack' = Navigator(stack, userToken', isLoading)
    /\ login' = LoginAfter(stack', login)
    /\ storageQ' = Tail(storageQ)
    /\ calls' = CallsAfter(stack', calls)
    /\ upload' = UploadAfter(stack', upload)
    /\ search' = SearchAfter(stack', search)
    /\ done' = Completed("signOut", Head(storageQ), SignOutRejects(Head(storageQ)))
    /\ settled' = NoSettled
    /\ prior' = NoDone
    /\ alert' = NoAlert
    /\ UNCHANGED <<store, isLoading>>
    /\ UNCHANGED formVars

\* ------------------------------------------------------------- AuthService
\* What generateOTP / validateOTP hand to the awaiting handler: a thrown
\* Error (fetch or response.json() rejected) or the decoded body, which is
\* JSON null or an object.
AuthFault(msg) ==
    [kind |-> "fault", success |-> FALSE, token |-> Null, message |-> msg]

AuthBodies ==
    [kind : {"object"}, success : BOOLEAN, token : TokenValues,
     message : {Null} \cup ServerMessages]
    \cup {[kind |-> "null", success |-> FALSE, token |-> Null, message |-> Null]}

\* A body response.json() cannot decode.
AuthUndecodable ==
    [kind |-> "invalid", success |-> FALSE, token |-> Null, message |-> Null]

\* What fetch gives: a rejection, or a response whose body decodes or not.
AuthResponses ==
    [transportOk : {TRUE}, body : AuthBodies \cup {AuthUndecodable}]
    \cup {[transportOk |-> FALSE, body |-> AuthUndecodable]}

\* Why an AuthService call ends as it does.
AuthCause(resp) ==
    IF ~resp.transportOk THEN "transport"
    ELSE IF resp.body.kind = "invalid" THEN "undecodable" ELSE "decoded"

GenerateOtpFailed ==
    "Network error or failed to generate OTP. Please check your connection."
ValidateOtpFailed ==
    "Network error or failed to validate OTP. Please try again."

\* A faulty service for comparison: the catch rethrows the error it caught.
AuthRethrows(transportOk, body) ==
    IF ~transportOk THEN AuthFault(NetworkFailed)
    ELSE IF body.kind = "invalid" THEN AuthFault(JsonParseError)
    ELSE body

\* generateOTP: try { fetch; response.json(); return data } catch { throw new Error(...) }
generateOTP(transportOk, body) ==
    IF transportOk /\ body.kind # "invalid" THEN body
    ELSE AuthFault(GenerateOtpFailed)

\* validateOTP: the same shape with its own message.
validateOTP(transportOk, body) ==
    IF transportOk /\ body.kind # "invalid" THEN body
    ELSE AuthFault(ValidateOtpFailed)

\* The record of an AuthService call that answered resp ending with r.
AuthSettled(op, resp, r) ==
    [NoSettled EXCEPT !.op = op,
                      !.kind = IF r.kind = "fault" THEN "fault" ELSE "result",
                      !.message = IF r.kind = "fault" THEN r.message ELSE "",
                      !.sent = TRUE,
                      !.cause = AuthCause(resp),
                      !.verbatim = (r = resp.body),
                      !.caller = IF op = "generateOTP"
                                 THEN "LoginScreen.handleGenerateOtp"
                                 ELSE "LoginScreen.handleValidateOtp"]

\* JavaScript `a || b` on strings.
JsOr(a, b) == IF Truthy(a) THEN a ELSE b

\* ------------------------------------------------------------- LoginScreen
EnterMobile(m) ==
    /\ LoginMounted /\ ~login.otpSent /\ ~login.loading
    /\ login' = [login EXCEPT !.mobileNumber = m]
    /\ alert' = NoAlert
    /\ UNCHANGED <<store, storageQ, userToken, isLoading, stack, docVars>>
    /\ Quiet
    /\ UNCHANGED formVars

EnterOtp(o) ==
    /\ LoginMounted /\ login.otpSent /\ ~login.loading
    /\ login' = [login EXCEPT !.otp = o]
    /\ alert' = NoAlert
    /\ UNCHANGED <<store, storageQ, userToken, isLoading, stack, docVars>>
    /\ Quiet
    /\ UNCHANGED formVars

ResendOtp ==
    /\ LoginMounted /\ login.otpSent /\ ~login.loading
    /\ login' = [login EXCEPT !.otpSent = FALSE, !.otp = ""]
    /\ alert' = NoAlert
    /\ UNCHANGED <<store, storageQ, userToken, isLoading, stack, docVars>>
    /\ Quiet
    /\ UNCHANGED formVars

\* handleGenerateOtp up to `await generateOTP(mobileNumber)`.
HandleGenerateOtp ==
    /\ LoginMounted /\ ~login.otpSent /\ ~login.loading
    /\ IF ~Truthy(login.mobileNumber)
       THEN /\ alert' = [title |-> "Input Error",
                         message |-> "Please enter your mobile number."]
            /\ login' = login
       ELSE /\ login' = [login EXCEPT !.loading = TRUE, !.pc = "generateOTP"]
            /\ alert' = NoAlert
    /\ UNCHANGED <<store, storageQ, userToken, isLoading, stack, docVars>>
    /\ Quiet
    /\ UNCHANGED formVars

\* The alert handleGenerateOtp shows for what generateOTP gave it.
GenerateOtpAlert(r) ==
    CASE r.kind = "fault" ->
            [title |-> "Error",
             message |-> JsOr(r.message, "Something went wrong. Please try again.")]
      [] r.kind = "null" ->
            [title |-> "Error", message |-> NullDataError]
      [] r.success ->
            [title |-> "Success", message |-> "OTP sent to your mobile number!"]
      [] OTHER ->
            [title |-> "Error",
             message |-> JsOr(r.message, "Failed to send OTP. Please try again.")]

\* handleGenerateOtp from the settled generateOTP to its end.
GenerateOtpResume ==
    /\ login.pc = "generateOTP"
    /\ \E resp \in AuthResponses :
        LET r == generateOTP(resp.transportOk, resp.body)
        IN /\ alert' = GenerateOtpAlert(r)
           /\ login' = [login EXCEPT
                  !.otpSent = (r.kind = "object" /\ r.success) \/ @,
                  !.loading = FALSE, !.pc = "idle"]
           /\ settled' = AuthSettled("generateOTP", resp, r)
    /\ done' = NoDone
    /\ prior' = NoDone
    /\ UNCHANGED <<store, storageQ, userToken, isLoading, stack, docVars>>
    /\ UNCHANGED formVars

\* handleValidateOtp up to `await validateOTP(mobileNumber, otp)`.
HandleValidateOtp ==
    /\ LoginMounted /\ login.otpSent /\ ~login.loading
    /\ IF ~Truthy(login.mobileNumber) \/ ~Truthy(login.otp)
       THEN /\ alert' = [title |-> "Input Error",
                         message |-> "Please enter both mobile number and OTP."]
            /\ login' = login
       ELSE /\ login' = [login EXCEPT !.loading = TRUE, !.pc = "validateOTP"]
            /\ alert' = NoAlert
    /\ UNCHANGED <<store, storageQ, userToken, isLoading, stack, docVars>>
    /\ Quiet
    /\ UNCHANGED formVars

\* `response.success && response.token`
ValidateAcceptedSuccessOnly(r) == r.kind = "object" /\ r.success

ValidateAccepted(r) == r.kind = "object" /\ r.success /\ Truthy(r.token)

\* The alert handleValidateOtp shows when it does not sign in.
ValidateOtpAlert(r) ==
    CASE r.kind = "fault" ->
            [title |-> "Error",
             message |-> JsOr(r.message, "Something went wrong. Please try again.")]
      [] r.kind = "null" ->
            [title |-> "Error", message |-> NullDataError]
      [] OTHER ->
            [title |-> "Error",
             message |-> JsOr(r.message, "Invalid OTP. Please try again.")]

\* handleValidateOtp from the settled validateOTP: either to its end, or into
\* signIn up to `await AsyncStorage.setItem('userToken', token)`.
ValidateOtpResume ==
    /\ login.pc = "validateOTP"
    /\ \E resp \in AuthResponses :
        LET r == validateOTP(resp.transportOk, resp.body)
        IN /\ IF ValidateAccepted(r)
              THEN /\ CanEnqueue
                   /\ storageQ' = Append(storageQ,
                                     StorageOp("setItem", "signIn", 0, r.token))
                   /\ login' = [login EXCEPT !.pc = "signIn"]
                   /\ alert' = NoAlert
              ELSE /\ alert' = ValidateOtpAlert(r)
                   /\ login' = [login EXCEPT !.loading = FALSE, !.pc = "idle"]
                   /\ storageQ' = storageQ
           /\ settled' = AuthSettled("validateOTP", resp, r)
    /\ done' = NoDone
    /\ prior' = NoDone
    /\ UNCHANGED <<store, userToken, isLoading, stack, docVars>>
    /\ UNCHANGED formVars

\* Faulty signIn variants for comparison: setUserToken(token) after the try
\* block; no setUserToken at all.
SignInSetsAlways(op, cur) == op.arg

SignInNeverSets(op, cur) == cur

\* signIn after `await AsyncStorage.setItem`: try / catch.
SignInUserToken(op, cur) ==
    IF op.status = "resolved" THEN op.arg ELSE cur

\* Whether the promise signIn returns rejects: its catch takes every error.
SignInRejects(op) == FALSE

\* What handleValidateOtp shows after `await signIn(response.token)`: the
\* success notice, or its catch block's alert if the await throws.
SignInAlert(op) ==
    IF SignInRejects(op)
    THEN [title |-> "Error", message |-> JsOr(StorageError,
                                     "Something went wrong. Please try again.")]
    ELSE [title |-> "Success", message |-> "Login successful!"]

\* signIn from the settled setItem to its end, then handleValidateOtp from
\* `await signIn(...)` to its end (its setLoading(false) is lost when the
\* login screen has been unmounted by then).
SignInResume ==
    /\ Settled("signIn")
    /\ LET op == Head(storageQ)
       IN /\ userToken' = SignInUserToken(op, userToken)
          /\ alert' = SignInAlert(op)
    /\ stack' = Navigator(stack, userToken', isLoading)
    /\ login' = LoginAfter(stack', [login EXCEPT !.loading = FALSE, !.pc = "idle"])
    /\ storageQ' = Tail(storageQ)
    /\ calls' = CallsAfter(stack', calls)
    /\ upload' = UploadAfter(stack', upload)
    /\ search' = SearchAfter(stack', search)
    /\ done' = Completed("signIn", Head(storageQ), SignInRejects(Head(storageQ)))
    /\ settled' = NoSettled
    /\ prior' = NoDone
    /\ UNCHANGED <<store, isLoading>>
    /\ UNCHANGED formVars

\* --------------------------------------------------------- DocumentService
MissingSession == "Authentication token not found. Please log in again."


\* A decoded response body: JSON null, or an object with optional fields.
\* (isArray: Array.isArray(data); data is <<>> when it is not.)
NoBody(kind) ==
    [kind |-> kind, success |-> FALSE, message |-> Null, isArray |-> FALSE,
     data |-> <<>>]

DocBodies ==
    [kind : {"object"}, success : {TRUE}, message : {Null},
     isArray : {TRUE}, data : DataLists]
    \cup [kind : {"object"}, success : BOOLEAN,
          message : {Null} \cup ServerMessages, isArray : {FALSE}, data : {<<>>}]
    \cup {NoBody("null"), NoBody("invalid")}

Fault(msg) == [kind |-> "fault", message |-> msg, body |-> NoBody("invalid")]
Result(body) == [kind |-> "result", message |-> "", body |-> body]

\* What fetch gives: a rejection (no connection) or a response with a status
\* and a body that may not be JSON.
\* (status 0: there is no response.)
NoResponse == [transportOk |-> FALSE, status |-> 0, body |-> NoBody("invalid")]

DocResponses ==
    [transportOk : {TRUE}, status : Statuses, body : DocBodies]
    \cup {NoResponse}

\* response.ok
ResponseOk(status) == status >= 200 /\ status <= 299

FreeSlots == {c \in 1..MaxCalls : calls[c].op = "none"}

\* getUserToken: `if (!userToken) throw new Error(...)`; a rejected getItem
\* throws its own error.
getUserToken(op) ==
    IF op.status = "rejected" THEN Fault(StorageError)
    ELSE IF ~Truthy(op.value) THEN Fault(MissingSession)
    ELSE Result(op.value)

\* uploadDocument / fetchDocumentTags / searchDocuments from the settled
\* fetch on: `data = await response.json(); if (!response.ok) throw ...;
\* return data`, every error rethrown by the catch.
ServiceOutcome(resp) ==
    IF ~resp.transportOk THEN Fault(NetworkFailed)
    ELSE IF resp.body.kind = "invalid" THEN Fault(JsonParseError)
    ELSE IF ~ResponseOk(resp.status)
         THEN IF resp.body.kind = "null" THEN Fault(NullDataError)
              ELSE Fault(JsOr(resp.body.message,
                              "API error: " \o ToString(resp.status)))
    ELSE Result(resp.body)

\* `response.success && Array.isArray(response.data)`
HasDataArray(body) == body.kind = "object" /\ body.success /\ body.isArray

\* ----------------------------------------------- handlers awaiting a call
\* UploadScreen getTags after `await fetchDocumentTags()`.
UploadGetTagsAlert(o) ==
    CASE o.kind = "fault" ->
            [title |-> "Error", message |-> "Failed to fetch tags: " \o o.message]
      [] o.body.kind = "null" ->
            [title |-> "Error", message |-> "Failed to fetch tags: " \o NullDataError]
      [] HasDataArray(o.body) -> NoAlert
      [] OTHER ->
            [title |-> "Error",
             message |-> JsOr(o.body.message, "Failed to fetch available tags.")]

\* UploadScreen handleSubmit after `await uploadDocument(...)`.
UploadSubmitAlert(o) ==
    CASE o.kind = "fault" ->
            [title |-> "Upload Failed",
             message |-> JsOr(o.message, "An unexpected error occurred during upload.")]
      [] o.body.kind = "null" ->
            [title |-> "Upload Failed", message |-> NullDataError]
      [] o.body.success ->
            [title |-> "Success", message |-> "Document uploaded successfully!"]
      [] OTHER ->
            [title |-> "Upload Error",
             message |-> JsOr(o.body.message, "Failed to upload document.")]

\* A faulty handler for comparison: an empty data array is an error.
SearchAlertEmptyIsError(o) ==
    CASE o.kind = "fault" ->
            [title |-> "Search Failed",
             message |-> JsOr(o.message, "An unexpected error occurred during search.")]
      [] o.body.kind = "null" ->
            [title |-> "Search Failed", message |-> NullDataError]
      [] HasDataArray(o.body) /\ o.body.data # <<>> -> NoAlert
      [] OTHER ->
            [title |-> "Search Error",
             message |-> JsOr(o.body.message, "Failed to search documents.")]

\* SearchScreen handleSearch after `await searchDocuments(...)`.
SearchAlert(o) ==
    CASE o.kind = "fault" ->
            [title |-> "Search Failed",
             message |-> JsOr(o.message, "An unexpected error occurred during search.")]
      [] o.body.kind = "null" ->
            [title |-> "Search Failed", message |-> NullDataError]
      [] HasDataArray(o.body) ->
            IF o.body.data = <<>>
            THEN [title |-> "No Results",
                  message |-> "No documents found matching your criteria."]
            ELSE NoAlert
      [] OTHER ->
            [title |-> "Search Error",
             message |-> JsOr(o.body.message, "Failed to search documents.")]

\* A faulty handler for comparison: the client keeps one record of the page.
SearchResultsFirstOnly(o) ==
    IF o.kind = "result" /\ HasDataArray(o.body) /\ o.body.data # <<>>
    THEN <<Head(o.body.data)>> ELSE <<>>

\* The list handleSearch leaves in searchResults.
SearchResultsAfter(o) ==
    IF o.kind = "result" /\ HasDataArray(o.body) THEN o.body.data ELSE <<>>

\* The service call in slot c settles with outcome o (sent: whether it issued
\* its request; resp: the answer to it) and the awaiting handler runs to its
\* end.
Settle(c, o, sent, resp) ==
    LET cl == calls[c]
    IN /\ settled' = [op |-> cl.op, kind |-> o.kind, message |-> o.message,
                      sent |-> sent,
                      held |-> IF sent THEN Truthy(cl.token)
                               ELSE Head(storageQ).held,
                      status |-> resp.status,
                      serverMessage |-> resp.body.message,
                      cause |-> CASE ~sent -> "none"
                                  [] ~resp.transportOk -> "transport"
                                  [] resp.body.kind = "invalid" -> "undecodable"
                                  [] OTHER -> "decoded",
                      verbatim |-> o.kind = "result" /\ o.body = resp.body,
                      caller |-> cl.caller]
       /\ calls' = [calls EXCEPT ![c] = NoCall]
       /\ done' = NoDone
       /\ prior' = NoDone
       /\ alert' = CASE cl.caller = "UploadScreen.getTags" -> UploadGetTagsAlert(o)
                     [] cl.caller = "UploadScreen.handleSubmit" -> UploadSubmitAlert(o)
                     [] cl.caller = "SearchScreen.handleSearch" -> SearchAlert(o)
                     [] OTHER -> NoAlert
       /\ upload' =
            IF ~cl.live THEN upload
            ELSE CASE cl.caller = "UploadScreen.getTags" ->
                        IF o.kind = "result" /\ HasDataArray(o.body)
                        THEN [upload EXCEPT !.availableTags = o.body.data]
                        ELSE upload
                   [] cl.caller = "UploadScreen.handleSubmit" ->
                        [upload EXCEPT !.loading = FALSE]
                   [] OTHER -> upload
       /\ search' =
            IF ~cl.live THEN search
            ELSE CASE cl.caller = "SearchScreen.getTags" ->
                        IF o.kind = "result" /\ HasDataArray(o.body)
                        THEN [search EXCEPT !.availableTags = o.body.data]
                        ELSE search
                   [] cl.caller = "SearchScreen.handleSearch" ->
                        [search EXCEPT !.loading = FALSE,
                                       !.searchResults = SearchResultsAfter(o)]
                   [] OTHER -> search

\* A handler calls a service function: the call runs up to
\* `await AsyncStorage.getItem('userToken')` inside getUserToken.
StartCall(c, op, caller) ==
    /\ calls' = [calls EXCEPT ![c] =
          [op |-> op, caller |-> caller, live |-> TRUE, pc |-> "getUserToken",
           token |-> Null]]
    /\ storageQ' = Append(storageQ, StorageOp("getItem", "getUserToken", c, Null))

\* The service call whose getItem settled: it throws, or goes on to fetch.
GetUserTokenResume ==
    /\ Settled("getUserToken")
    /\ LET op == Head(storageQ)
           c == op.call
           r == getUserToken(op)
       IN IF r.kind = "fault"
          THEN Settle(c, r, FALSE, NoResponse)
          ELSE /\ calls' = [calls EXCEPT ![c].pc = "fetch", ![c].token = r.body]
               /\ Quiet
               /\ alert' = NoAlert
               /\ UNCHANGED <<upload, search>>
    /\ storageQ' = Tail(storageQ)
    /\ UNCHANGED <<store, userToken, isLoading, stack, login>>
    /\ UNCHANGED formVars

\* The request of call c is answered (or fails in transport).
FetchResume(c) ==
    /\ calls[c].pc = "fetch"
    /\ \E resp \in DocResponses : Settle(c, ServiceOutcome(resp), TRUE, resp)
    /\ UNCHANGED <<store, storageQ, userToken, isLoading, stack, login>>
    /\ UNCHANGED formVars

\* -------------------------------------------------------------- HomeScreen
Top == IF stack = <<>> THEN "none" ELSE stack[Len(stack)]

\* navigation.navigate('Upload'): UploadScreen mounts and its effect calls
\* getTags.
NavigateUpload ==
    /\ Top = "Home"
    /\ CanEnqueue
    /\ \E c \in FreeSlots :
        /\ c = CHOOSE x \in FreeSlots : \A y \in FreeSlots : x <= y
        /\ StartCall(c, "fetchDocumentTags", "UploadScreen.getTags")
    /\ stack' = Append(stack, "Upload")
    /\ upload' = UploadInit
    /\ alert' = NoAlert
    /\ UNCHANGED <<store, userToken, isLoading, login, search>>
    /\ Quiet
    /\ UNCHANGED formVars

\* navigation.navigate('Search'): SearchScreen mounts and its effect calls
\* getTags.
NavigateSearch ==
    /\ Top = "Home"
    /\ CanEnqueue
    /\ \E c \in FreeSlots :
        /\ c = CHOOSE x \in FreeSlots : \A y \in FreeSlots : x <= y
        /\ StartCall(c, "fetchDocumentTags", "SearchScreen.getTags")
    /\ stack' = Append(stack, "Search")
    /\ search' = SearchInit
    /\ alert' = NoAlert
    /\ UNCHANGED <<store, userToken, isLoading, login, upload>>
    /\ Quiet
    /\ UNCHANGED formVars

\* navigation.navigate('Preview', {document: item}) from a result row.
NavigatePreview ==
    /\ Top = "Search"
    /\ search.searchResults # <<>>
    /\ stack' = Append(stack, "Preview")
    /\ alert' = NoAlert
    /\ UNCHANGED <<store, storageQ, userToken, isLoading, login, docVars>>
    /\ Quiet
    /\ UNCHANGED formVars

\* What RNFS.downloadFile(...).promise gives: a status code, or a rejection.
DownloadResults == {[ok |-> TRUE, statusCode |-> 200],
                    [ok |-> TRUE, statusCode |-> 500],
                    [ok |-> FALSE, statusCode |-> 0]}

DownloadAlert(res) ==
    CASE ~res.ok ->
            [title |-> "Download Failed",
             message |-> "An error occurred during download: " \o NetworkFailed]
      [] res.statusCode = 200 ->
            [title |-> "Success", message |-> "File downloaded to: Download"]
      [] OTHER ->
            [title |-> "Download Error",
             message |-> "Failed to download file. Status: "
                         \o ToString(res.statusCode)]

\* handleDownload of a document with a file_url, up to
\* `await RNFS.downloadFile(...).promise` (the button is disabled while the
\* screen's download is outstanding).
HandleDownload ==
    /\ Top = "Preview"
    /\ \A c \in 1..MaxCalls : ~(calls[c].op = "downloadFile" /\ calls[c].live)
    /\ \E c \in FreeSlots :
        /\ c = CHOOSE x \in FreeSlots : \A y \in FreeSlots : x <= y
        /\ calls' = [calls EXCEPT ![c] =
              [op |-> "downloadFile", caller |-> "PreviewScreen.handleDownload",
               live |-> TRUE, pc |-> "download", token |-> Null]]
    /\ alert' = NoAlert
    /\ UNCHANGED <<store, storageQ, userToken, isLoading, stack, login,
                   upload, search>>
    /\ Quiet
    /\ UNCHANGED formVars

\* The download of call c ends and handleDownload runs to its end.
DownloadResume(c) ==
    /\ calls[c].pc = "download"
    /\ \E res \in DownloadResults :
        /\ alert' = DownloadAlert(res)
        /\ settled' = [NoSettled EXCEPT
              !.op = "downloadFile",
              !.kind = IF res.ok THEN "result" ELSE "fault",
              !.message = IF res.ok THEN "" ELSE NetworkFailed,
              !.sent = TRUE,
              !.cause = IF res.ok THEN "decoded" ELSE "transport",
              !.caller = "PreviewScreen.handleDownload"]
    /\ calls' = [calls EXCEPT ![c] = NoCall]
    /\ done' = NoDone
    /\ prior' = NoDone
    /\ UNCHANGED <<store, storageQ, userToken, isLoading, stack, login,
                   upload, search>>
    /\ UNCHANGED formVars

\* The header's back button pops the top screen, which unmounts.
GoBack ==
    /\ Top \in {"Upload", "Search", "Preview"}
    /\ stack' = SubSeq(stack, 1, Len(stack) - 1)
    /\ calls' = CallsAfter(stack', calls)
    /\ upload' = UploadAfter(stack', upload)
    /\ search' = SearchAfter(stack', search)
    /\ alert' = NoAlert
    /\ UNCHANGED <<store, storageQ, userToken, isLoading, login>>
    /\ Quiet
    /\ UNCHANGED formVars

\* ------------------------------------------------------------ UploadScreen
\* The fields handleSubmit validates, as the user left them.
UploadForms ==
    [selectedFile : BOOLEAN, majorHead : {"", "Personal"},
     minorHead : {"", "Tom"}, tags : {<<>>, <<"invoice">>}]

\* handleSubmit's validation: the alert it returns with, or NoAlert.
SubmitValidationNoTagCheck(f) ==
    IF ~f.selectedFile
    THEN [title |-> "Validation Error", message |-> "Please select a file to upload."]
    ELSE IF ~Truthy(f.majorHead) \/ ~Truthy(f.minorHead)
    THEN [title |-> "Validation Error",
          message |-> "Please select both Major Head and Minor Head."]
    ELSE NoAlert

SubmitValidation(f) ==
    IF ~f.selectedFile
    THEN [title |-> "Validation Error", message |-> "Please select a file to upload."]
    ELSE IF ~Truthy(f.majorHead) \/ ~Truthy(f.minorHead)
    THEN [title |-> "Validation Error",
          message |-> "Please select both Major Head and Minor Head."]
    ELSE IF Len(f.tags) = 0
    THEN [title |-> "Validation Error", message |-> "Please add at least one tag."]
    ELSE NoAlert

\* handleSubmit up to the await inside uploadDocument.
HandleSubmit(f) ==
    /\ Top = "Upload" /\ ~upload.loading
    /\ IF SubmitValidation(f) # NoAlert
       THEN /\ alert' = SubmitValidation(f)
            /\ UNCHANGED <<storageQ, calls, upload>>
       ELSE /\ CanEnqueue
            /\ \E c \in FreeSlots :
                /\ c = CHOOSE x \in FreeSlots : \A y \in FreeSlots : x <= y
                /\ StartCall(c, "uploadDocument", "UploadScreen.handleSubmit")
            /\ upload' = [upload EXCEPT !.loading = TRUE]
            /\ alert' = NoAlert
    /\ UNCHANGED <<store, userToken, isLoading, stack, login, search>>
    /\ Quiet
    /\ UNCHANGED formVars

\* ------------------------------------------------------------ SearchScreen
\* handleSearch up to the await inside searchDocuments.
HandleSearch ==
    /\ Top = "Search" /\ ~search.loading
    /\ CanEnqueue
    /\ \E c \in FreeSlots :
        /\ c = CHOOSE x \in FreeSlots : \A y \in FreeSlots : x <= y
        /\ StartCall(c, "searchDocuments", "SearchScreen.handleSearch")
    /\ search' = [search EXCEPT !.loading = TRUE]
    /\ alert' = NoAlert
    /\ UNCHANGED <<store, userToken, isLoading, stack, login, upload>>
    /\ Quiet
    /\ UNCHANGED formVars

\* =================================================================== forms
\* One mounted instance of a screen, followed field by field.  Text that is
\* trimmed is a sequence of characters.
MaxTags == 2
MaxInFlight == 2

Space == " "
\* What the user can type into a tag field, and the tag names the server
\* can suggest.
TypedTags == {<<Space>>, <<"a", Space>>}
SuggestedTags == {<<"a">>, <<Space, "a">>}

\* What the user can type on the followed login screen.
TypedMobiles == {"", "9999999999", "8888888888"}
TypedOtps == {"", "123456"}

\* A Date: the calendar day it falls on in the device's time zone and in UTC.
Noon == [localDay |-> "2024-05-02", utcDay |-> "2024-05-02"]
EarlyMorning == [localDay |-> "2024-05-02", utcDay |-> "2024-05-01"]
Dates == {Noon, EarlyMorning}

\* `date.toISOString().split('T')[0]`
ToISODate(d) == d.utcDay

RECURSIVE TrimStart(_)
TrimStart(s) ==
    IF s # <<>> /\ Head(s) = Space THEN TrimStart(Tail(s)) ELSE s

RECURSIVE TrimEnd(_)
TrimEnd(s) ==
    IF s # <<>> /\ s[Len(s)] = Space
    THEN TrimEnd(SubSeq(s, 1, Len(s) - 1)) ELSE s

\* String.prototype.trim
Trim(s) == TrimEnd(TrimStart(s))

\* Array.prototype.includes
Includes(tags, t) == \E i \in 1..Len(tags) : tags[i] = t

\* A faulty handleAddTag for comparison: no `!tags.includes(trimmedTag)`.
AddTagNoIncludesCheck(tags, newTag) ==
    IF Trim(newTag) # <<>> THEN Append(tags, Trim(newTag)) ELSE tags

\* handleAddTag: the selection it leaves.
AddTag(tags, newTag) ==
    IF Trim(newTag) # <<>> /\ ~Includes(tags, Trim(newTag))
    THEN Append(tags, Trim(newTag)) ELSE tags

\* handleAddTag: the input field it leaves (cleared when the tag was added).
AddTagInput(tags, newTag) ==
    IF Trim(newTag) # <<>> /\ ~Includes(tags, Trim(newTag))
    THEN <<>> ELSE newTag

\* The suggested-tag chip's onPress.
TapSuggestion(tags, t) ==
    IF ~Includes(tags, t) THEN Append(tags, t) ELSE tags

\* handleRemoveTag
RemoveTag(tags, t) == SelectSeq(tags, LAMBDA x : x # t)

MajorHeads == {"Personal", "Professional"}
\* minorHeadOptions, one of each list.
MinorHeadOptions(major) ==
    CASE major = "Personal" -> {"Tom"}
      [] major = "Professional" -> {"HR"}
      [] OTHER -> {}

\* useState initial values of LoginScreen.
LoginFormInit ==
    [mobileNumber |-> "", otp |-> "", otpSent |-> FALSE, loading |-> FALSE,
     otpFor |-> ""]

\* useState initial values of UploadScreen (now: `new Date()`).
UploadFormInit(now) ==
    [documentDate |-> now, majorHead |-> "", minorHead |-> "",
     remarks |-> "", tags |-> <<>>, newTag |-> <<>>, selectedFile |-> Null,
     loading |-> FALSE]

\* useState initial values of SearchScreen.
SearchFormInit ==
    [majorHead |-> "", minorHead |-> "", tags |-> <<>>, newTag |-> <<>>,
     searchResults |-> <<>>, loading |-> FALSE]

Controls == {"generateOtp", "validateOtp", "upload", "search", "download"}

NoPending == [c \in Controls |-> <<>>]

\* No request was sent in the last step.
NoPosted == [op |-> "none", token |-> Null, request |-> <<>>]

\* None of the followed instance's handlers that add a tag or belong to a
\* request ran in the last step.
NoLast ==
    [op |-> "none", kind |-> "none", success |-> FALSE, message |-> Null,
     isArray |-> FALSE, data |-> <<>>, token |-> Null, sent |-> 0,
     read |-> "none"]

\* ----------------------------------------------------------------- process
\* The app is killed and started again: memory is lost, device storage stays,
\* and the new AuthProvider mounts and calls loadToken.
Restart ==
    /\ userToken' = Null
    /\ isLoading' = TRUE
    /\ stack' = <<>>
    /\ alert' = NoAlert
    /\ login' = LoginInit
    /\ calls' = [c \in 1..MaxCalls |-> NoCall]
    /\ settled' = NoSettled
    /\ upload' = UploadInit
    /\ search' = SearchInit
    /\ done' = [NoDone EXCEPT !.op = "restart"]
    /\ prior' = IF done.op \in {"signIn", "signOut"} THEN done ELSE NoDone
    /\ storageQ' = <<StorageOp("getItem", "loadToken", 0, Null)>>
    /\ UNCHANGED store
    /\ UNCHANGED formVars

Init ==
    /\ store = Null
    /\ storageQ = <<StorageOp("getItem", "loadToken", 0, Null)>>
    /\ userToken = Null
    /\ isLoading = TRUE
    /\ stack = <<>>
    /\ alert = NoAlert
    /\ login = LoginInit
    /\ calls = [c \in 1..MaxCalls |-> NoCall]
    /\ settled = NoSettled
    /\ upload = UploadInit
    /\ search = SearchInit
    /\ done = NoDone
    /\ prior = NoDone
    /\ mounted = "none"
    /\ loginForm = LoginFormInit
    /\ uploadForm = UploadFormInit(Noon)
    /\ searchForm = SearchFormInit
    /\ downloading = FALSE
    /\ pending = NoPending
    /\ posted = NoPosted
    /\ last = NoLast

Next ==
    \/ AsyncStorageExec
    \/ LoadTokenResume
    \/ SignOutPress
    \/ SignOutResume
    \/ \E m \in Mobiles \cup {""} : EnterMobile(m)
    \/ \E o \in Otps \cup {""} : EnterOtp(o)
    \/ ResendOtp
    \/ HandleGenerateOtp
    \/ GenerateOtpResume
    \/ HandleValidateOtp
    \/ ValidateOtpResume
    \/ SignInResume
    \/ NavigateUpload
    \/ NavigateSearch
    \/ NavigatePreview
    \/ HandleDownload
    \/ \E c \in 1..MaxCalls : DownloadResume(c)
    \/ GoBack
    \/ \E f \in UploadForms : HandleSubmit(f)
    \/ HandleSearch
    \/ GetUserTokenResume
    \/ \E c \in 1..MaxCalls : FetchResume(c)
    \/ Restart

Spec == Init /\ [][Next]_vars

\* ============================================================ form handlers
\* The handlers of the followed screen instance.  The session, the shell and
\* the service calls of the other instances stay as they are.
sessionVars == <<store, storageQ, userToken, isLoading, stack, login, calls,
                 settled, upload, search, done, prior>>

\* A handler that sends nothing and raises no alert ran.
Ran(op) ==
    /\ last' = [NoLast EXCEPT !.op = op]
    /\ posted' = NoPosted
    /\ alert' = NoAlert

\* A field was set.
Edited == Ran("none")

\* `await AsyncStorage.getItem('userToken')` as the call sees it settle.
TokenReads ==
    {[StorageOp("getItem", "getUserToken", 0, Null)
        EXCEPT !.status = "resolved", !.value = store, !.held = Truthy(store)],
     [StorageOp("getItem", "getUserToken", 0, Null)
        EXCEPT !.status = "rejected", !.held = Truthy(store)]}

\* A call started from a control: where it stands, the payload its handler
\* built, the token it read and the number of requests it has sent.
Request(pc, payload) ==
    [pc |-> pc, request |-> payload, token |-> Null, sent |-> 0]

\* `disabled={loading}` / `disabled={downloading}` on a control.
NeverDisabled(flag) == FALSE

Disabled(flag) == flag

\* ------------------------------------------------------------ UploadScreen
UploadFields == <<"documentDate", "majorHead", "minorHead", "remarks", "tags",
                  "newTag", "selectedFile">>

\* onDateChange
UploadPickDate(d) ==
    /\ mounted = "Upload"
    /\ uploadForm' = [uploadForm EXCEPT !.documentDate = d]
    /\ Edited
    /\ UNCHANGED <<sessionVars, mounted, loginForm, searchForm, downloading, pending>>

\* handleFilePick with a picked file.
UploadPickFile ==
    /\ mounted = "Upload"
    /\ uploadForm' = [uploadForm EXCEPT !.selectedFile = "file1"]
    /\ Edited
    /\ UNCHANGED <<sessionVars, mounted, loginForm, searchForm, downloading, pending>>

\* The major picker's onValueChange of UploadScreen.
UploadMajorChange(form, m) == [form EXCEPT !.majorHead = m, !.minorHead = ""]

UploadSetMajor(m) ==
    /\ mounted = "Upload"
    /\ m # uploadForm.majorHead
    /\ uploadForm' = UploadMajorChange(uploadForm, m)
    /\ Edited
    /\ UNCHANGED <<sessionVars, mounted, loginForm, searchForm, downloading, pending>>

\* The minor picker is rendered only under a major head, with its options.
UploadSetMinor(n) ==
    /\ mounted = "Upload"
    /\ Truthy(uploadForm.majorHead)
    /\ n \in MinorHeadOptions(uploadForm.majorHead) \cup {""}
    /\ n # uploadForm.minorHead
    /\ uploadForm' = [uploadForm EXCEPT !.minorHead = n]
    /\ Edited
    /\ UNCHANGED <<sessionVars, mounted, loginForm, searchForm, downloading, pending>>

UploadEnterRemarks(r) ==
    /\ mounted = "Upload"
    /\ uploadForm' = [uploadForm EXCEPT !.remarks = r]
    /\ Edited
    /\ UNCHANGED <<sessionVars, mounted, loginForm, searchForm, downloading, pending>>

UploadEnterTag(t) ==
    /\ mounted = "Upload"
    /\ uploadForm' = [uploadForm EXCEPT !.newTag = t]
    /\ Edited
    /\ UNCHANGED <<sessionVars, mounted, loginForm, searchForm, downloading, pending>>

UploadAddTag ==
    /\ mounted = "Upload"
    /\ Len(AddTag(uploadForm.tags, uploadForm.newTag)) <= MaxTags
    /\ uploadForm' =
          [uploadForm EXCEPT
              !.tags = AddTag(uploadForm.tags, uploadForm.newTag),
              !.newTag = AddTagInput(uploadForm.tags, uploadForm.newTag)]
    /\ Ran("UploadScreen.handleAddTag")
    /\ UNCHANGED <<sessionVars, mounted, loginForm, searchForm, downloading, pending>>

\* A chip is rendered for every available tag that is not selected
\* (SuggestedTags: the names the server sent).
UploadTapSuggestion(t) ==
    /\ mounted = "Upload"
    /\ ~Includes(uploadForm.tags, t)
    /\ Len(uploadForm.tags) < MaxTags
    /\ uploadForm' = [uploadForm EXCEPT !.tags = TapSuggestion(uploadForm.tags, t)]
    /\ Edited
    /\ UNCHANGED <<sessionVars, mounted, loginForm, searchForm, downloading, pending>>

UploadRemoveTag(t) ==
    /\ mounted = "Upload"
    /\ Includes(uploadForm.tags, t)
    /\ uploadForm' = [uploadForm EXCEPT !.tags = RemoveTag(uploadForm.tags, t)]
    /\ Edited
    /\ UNCHANGED <<sessionVars, mounted, loginForm, searchForm, downloading, pending>>

\* A faulty payload for comparison: the remarks are left out.
DocumentDataNoRemarks(form) ==
    [file |-> form.selectedFile,
     major_head |-> form.majorHead,
     minor_head |-> form.minorHead,
     document_date |-> ToISODate(form.documentDate),
     document_remarks |-> "",
     tags |-> [i \in 1..Len(form.tags) |-> [tag_name |-> form.tags[i]]],
     user_id |-> "example_user_id"]

\* documentData and the file, as handleSubmit builds them.
DocumentData(form) ==
    [file |-> form.selectedFile,
     major_head |-> form.majorHead,
     minor_head |-> form.minorHead,
     document_date |-> ToISODate(form.documentDate),
     document_remarks |-> form.remarks,
     tags |-> [i \in 1..Len(form.tags) |-> [tag_name |-> form.tags[i]]],
     user_id |-> "example_user_id"]

\* handleSubmit up to the await inside uploadDocument.
UploadSubmit ==
    /\ mounted = "Upload"
    /\ ~Disabled(uploadForm.loading)
    /\ LET v == SubmitValidation(
                   [uploadForm EXCEPT !.selectedFile = uploadForm.selectedFile # Null])
       IN IF v # NoAlert
          THEN /\ alert' = v
               /\ UNCHANGED <<uploadForm, pending>>
          ELSE /\ Len(pending.upload) < MaxInFlight
               /\ alert' = NoAlert
               /\ uploadForm' = [uploadForm EXCEPT !.loading = TRUE]
               /\ pending' = [pending EXCEPT !.upload =
                     Append(@, Request("getUserToken", DocumentData(uploadForm)))]
    /\ last' = [NoLast EXCEPT !.op = "UploadScreen.handleSubmit"]
    /\ posted' = NoPosted
    /\ UNCHANGED <<sessionVars, mounted, loginForm, searchForm, downloading>>

\* A faulty handler for comparison: every completion resets the form.
UploadFormResetAlways(form, o, now) ==
    [UploadFormInit(now) EXCEPT !.loading = FALSE]

\* handleSubmit after `await uploadDocument(...)`: the form it leaves.
UploadFormKeepsLoadingOnFault(form, o, now) ==
    IF o.kind = "result" /\ o.body.kind # "null" /\ o.body.success
    THEN [UploadFormInit(now) EXCEPT !.loading = FALSE]
    ELSE IF o.kind = "fault" THEN form
    ELSE [form EXCEPT !.loading = FALSE]

UploadFormAfter(form, o, now) ==
    IF o.kind = "result" /\ o.body.kind # "null" /\ o.body.success
    THEN [UploadFormInit(now) EXCEPT !.loading = FALSE]
    ELSE [form EXCEPT !.loading = FALSE]

\* The record of a call that ended with outcome o on answer body b.
Ended(op, o, b, req, read) ==
    [op |-> op, kind |-> o.kind, success |-> b.kind = "object" /\ b.success,
     message |-> IF o.kind = "fault" THEN o.message ELSE b.message,
     isArray |-> b.isArray, data |-> b.data, token |-> Null,
     sent |-> req.sent, read |-> read]

\* The oldest upload's token read settles: the call throws, or posts.
UploadTokenRead ==
    /\ mounted = "Upload"
    /\ pending.upload # <<>>
    /\ Head(pending.upload).pc = "getUserToken"
    /\ \E rd \in TokenReads :
        LET r == getUserToken(rd)
            req == Head(pending.upload)
        IN IF r.kind = "fault"
           THEN /\ \E now \in Dates :
                     uploadForm' = UploadFormAfter(uploadForm, r, now)
                /\ alert' = UploadSubmitAlert(r)
                /\ pending' = [pending EXCEPT !.upload = Tail(@)]
                /\ posted' = NoPosted
                /\ last' = Ended("uploadDocument", r, NoBody("invalid"), req, rd.status)
           ELSE /\ pending' = [pending EXCEPT !.upload =
                      <<[req EXCEPT !.pc = "fetch", !.token = r.body,
                                    !.sent = @ + 1]>> \o Tail(@)]
                /\ posted' = [op |-> "saveDocumentEntry", token |-> r.body,
                              request |-> req.request]
                /\ last' = [NoLast EXCEPT !.op = "uploadDocument.getUserToken",
                                          !.read = rd.status]
                /\ alert' = NoAlert
                /\ UNCHANGED uploadForm
    /\ UNCHANGED <<sessionVars, mounted, loginForm, searchForm, downloading>>

\* The oldest upload's request is answered.
UploadAnswer(resp) ==
    /\ mounted = "Upload"
    /\ pending.upload # <<>>
    /\ Head(pending.upload).pc = "fetch"
    /\ LET o == ServiceOutcome(resp)
       IN /\ \E now \in Dates : uploadForm' = UploadFormAfter(uploadForm, o, now)
          /\ alert' = UploadSubmitAlert(o)
          /\ last' = Ended("uploadDocument", o, resp.body, Head(pending.upload),
                           "resolved")
    /\ pending' = [pending EXCEPT !.upload = Tail(@)]
    /\ posted' = NoPosted
    /\ UNCHANGED <<sessionVars, mounted, loginForm, searchForm, downloading>>

\* ------------------------------------------------------------ SearchScreen
\* The major picker's onValueChange of SearchScreen: setMajorHead itself.
SearchMajorChange(form, m) == [form EXCEPT !.majorHead = m]

SearchSetMajor(m) ==
    /\ mounted = "Search"
    /\ m # searchForm.majorHead
    /\ searchForm' = SearchMajorChange(searchForm, m)
    /\ Edited
    /\ UNCHANGED <<sessionVars, mounted, loginForm, uploadForm, downloading, pending>>

SearchSetMinor(n) ==
    /\ mounted = "Search"
    /\ Truthy(searchForm.majorHead)
    /\ n \in MinorHeadOptions(searchForm.majorHead) \cup {""}
    /\ n # searchForm.minorHead
    /\ searchForm' = [searchForm EXCEPT !.minorHead = n]
    /\ Edited
    /\ UNCHANGED <<sessionVars, mounted, loginForm, uploadForm, downloading, pending>>

SearchEnterTag(t) ==
    /\ mounted = "Search"
    /\ searchForm' = [searchForm EXCEPT !.newTag = t]
    /\ Edited
    /\ UNCHANGED <<sessionVars, mounted, loginForm, uploadForm, downloading, pending>>

SearchAddTag ==
    /\ mounted = "Search"
    /\ Len(AddTag(searchForm.tags, searchForm.newTag)) <= MaxTags
    /\ searchForm' =
          [searchForm EXCEPT
              !.tags = AddTag(searchForm.tags, searchForm.newTag),
              !.newTag = AddTagInput(searchForm.tags, searchForm.newTag)]
    /\ Ran("SearchScreen.handleAddTag")
    /\ UNCHANGED <<sessionVars, mounted, loginForm, uploadForm, downloading, pending>>

SearchTapSuggestion(t) ==
    /\ mounted = "Search"
    /\ ~Includes(searchForm.tags, t)
    /\ Len(searchForm.tags) < MaxTags
    /\ searchForm' = [searchForm EXCEPT !.tags = TapSuggestion(searchForm.tags, t)]
    /\ Edited
    /\ UNCHANGED <<sessionVars, mounted, loginForm, uploadForm, downloading, pending>>

SearchRemoveTag(t) ==
    /\ mounted = "Search"
    /\ Includes(searchForm.tags, t)
    /\ searchForm' = [searchForm EXCEPT !.tags = RemoveTag(searchForm.tags, t)]
    /\ Edited
    /\ UNCHANGED <<sessionVars, mounted, loginForm, uploadForm, downloading, pending>>

\* searchCriteria as handleSearch builds it (the dates are left unset).
SearchCriteria(form) ==
    [major_head |-> form.majorHead,
     minor_head |-> form.minorHead,
     from_date |-> "", to_date |-> "",
     tags |-> [i \in 1..Len(form.tags) |-> [tag_name |-> form.tags[i]]],
     uploaded_by |-> "", start |-> 0, length |-> 10, filterId |-> "",
     search |-> [value |-> ""]]

\* handleSearch up to the await inside searchDocuments.
SearchSubmit ==
    /\ mounted = "Search"
    /\ ~Disabled(searchForm.loading)
    /\ Len(pending.search) < MaxInFlight
    /\ searchForm' = [searchForm EXCEPT !.loading = TRUE]
    /\ pending' = [pending EXCEPT !.search =
          Append(@, Request("getUserToken", SearchCriteria(searchForm)))]
    /\ Ran("SearchScreen.handleSearch")
    /\ UNCHANGED <<sessionVars, mounted, loginForm, uploadForm, downloading>>

\* handleSearch after `await searchDocuments(...)`: the form it leaves.
SearchFormAfter(form, o) ==
    [form EXCEPT !.loading = FALSE, !.searchResults = SearchResultsAfter(o)]

SearchTokenRead ==
    /\ mounted = "Search"
    /\ pending.search # <<>>
    /\ Head(pending.search).pc = "getUserToken"
    /\ \E rd \in TokenReads :
        LET r == getUserToken(rd)
            req == Head(pending.search)
        IN IF r.kind = "fault"
           THEN /\ searchForm' = SearchFormAfter(searchForm, r)
                /\ alert' = SearchAlert(r)
                /\ pending' = [pending EXCEPT !.search = Tail(@)]
                /\ posted' = NoPosted
                /\ last' = Ended("searchDocuments", r, NoBody("invalid"), req, rd.status)
           ELSE /\ pending' = [pending EXCEPT !.search =
                      <<[req EXCEPT !.pc = "fetch", !.token = r.body,
                                    !.sent = @ + 1]>> \o Tail(@)]
                /\ posted' = [op |-> "searchDocumentEntry", token |-> r.body,
                              request |-> req.request]
                /\ last' = [NoLast EXCEPT !.op = "searchDocuments.getUserToken",
                                          !.read = rd.status]
                /\ alert' = NoAlert
                /\ UNCHANGED searchForm
    /\ UNCHANGED <<sessionVars, mounted, loginForm, uploadForm, downloading>>

SearchAnswer(resp) ==
    /\ mounted = "Search"
    /\ pending.search # <<>>
    /\ Head(pending.search).pc = "fetch"
    /\ LET o == ServiceOutcome(resp)
       IN /\ searchForm' = SearchFormAfter(searchForm, o)
          /\ alert' = SearchAlert(o)
          /\ last' = Ended("searchDocuments", o, resp.body, Head(pending.search),
                           "resolved")
    /\ pending' = [pending EXCEPT !.search = Tail(@)]
    /\ posted' = NoPosted
    /\ UNCHANGED <<sessionVars, mounted, loginForm, uploadForm, downloading>>

\* ------------------------------------------------------------- LoginScreen
\* A mobile number field for comparison that stays editable after an OTP was
\* sent.
LoginEnterMobileAfterOtp(m) ==
    /\ mounted = "Login"
    /\ ~loginForm.loading
    /\ loginForm' = [loginForm EXCEPT !.mobileNumber = m]
    /\ Edited
    /\ UNCHANGED <<sessionVars, mounted, uploadForm, searchForm, downloading, pending>>

\* The mobile number field: `editable={!otpSent && !loading}`.
LoginEnterMobile(m) ==
    /\ mounted = "Login"
    /\ ~loginForm.otpSent /\ ~loginForm.loading
    /\ loginForm' = [loginForm EXCEPT !.mobileNumber = m]
    /\ Edited
    /\ UNCHANGED <<sessionVars, mounted, uploadForm, searchForm, downloading, pending>>

\* The OTP field: rendered once an OTP was sent, `editable={!loading}`.
LoginEnterOtp(o) ==
    /\ mounted = "Login"
    /\ loginForm.otpSent /\ ~loginForm.loading
    /\ loginForm' = [loginForm EXCEPT !.otp = o]
    /\ Edited
    /\ UNCHANGED <<sessionVars, mounted, uploadForm, searchForm, downloading, pending>>

\* handleGenerateOtp's check of its input: the alert it returns with, or
\* NoAlert.
GenerateValidation(form) ==
    IF ~Truthy(form.mobileNumber)
    THEN [title |-> "Input Error", message |-> "Please enter your mobile number."]
    ELSE NoAlert

\* handleValidateOtp's check of its input.
ValidateValidation(form) ==
    IF ~Truthy(form.mobileNumber) \/ ~Truthy(form.otp)
    THEN [title |-> "Input Error",
          message |-> "Please enter both mobile number and OTP."]
    ELSE NoAlert

\* handleGenerateOtp up to the await inside generateOTP, which has sent its
\* request by then.  (The Generate button is rendered while no OTP was sent.)
LoginGenerate ==
    /\ mounted = "Login"
    /\ ~loginForm.otpSent
    /\ ~Disabled(loginForm.loading)
    /\ IF GenerateValidation(loginForm) # NoAlert
       THEN /\ alert' = GenerateValidation(loginForm)
            /\ posted' = NoPosted
            /\ UNCHANGED <<loginForm, pending>>
       ELSE /\ Len(pending.generateOtp) + Len(pending.validateOtp) < MaxInFlight
            /\ alert' = NoAlert
            /\ loginForm' = [loginForm EXCEPT !.loading = TRUE]
            /\ pending' = [pending EXCEPT !.generateOtp =
                  Append(@, [Request("fetch",
                               [mobile_number |-> loginForm.mobileNumber])
                             EXCEPT !.sent = 1])]
            /\ posted' = [op |-> "generateOTP", token |-> Null,
                          request |-> [mobile_number |-> loginForm.mobileNumber]]
    /\ last' = [NoLast EXCEPT !.op = "LoginScreen.handleGenerateOtp"]
    /\ UNCHANGED <<sessionVars, mounted, uploadForm, searchForm, downloading>>

\* handleGenerateOtp after the await.  (otpFor is not a field of the screen:
\* it keeps the number of the last generate request that succeeded.)
LoginGenerateAnswer(resp) ==
    /\ mounted = "Login"
    /\ pending.generateOtp # <<>>
    /\ LET r == generateOTP(resp.transportOk, resp.body)
           ok == r.kind = "object" /\ r.success
       IN /\ loginForm' = [loginForm EXCEPT
                 !.loading = FALSE,
                 !.otpSent = IF ok THEN TRUE ELSE @,
                 !.otpFor = IF ok
                            THEN Head(pending.generateOtp).request.mobile_number
                            ELSE @]
          /\ alert' = GenerateOtpAlert(r)
          /\ last' = [NoLast EXCEPT !.op = "generateOTP", !.kind = r.kind,
                                    !.success = r.success, !.sent = 1]
    /\ pending' = [pending EXCEPT !.generateOtp = Tail(@)]
    /\ posted' = NoPosted
    /\ UNCHANGED <<sessionVars, mounted, uploadForm, searchForm, downloading>>

\* The Resend button: `setOtpSent(false); setOtp('')`.
LoginResend ==
    /\ mounted = "Login"
    /\ loginForm.otpSent
    /\ ~Disabled(loginForm.loading)
    /\ loginForm' = [loginForm EXCEPT !.otpSent = FALSE, !.otp = ""]
    /\ Ran("LoginScreen.resend.onPress")
    /\ UNCHANGED <<sessionVars, mounted, uploadForm, searchForm, downloading, pending>>

\* handleValidateOtp up to the await inside validateOTP, which has sent its
\* request by then.  (The Validate button is rendered once an OTP was sent.)
LoginValidate ==
    /\ mounted = "Login"
    /\ loginForm.otpSent
    /\ ~Disabled(loginForm.loading)
    /\ IF ValidateValidation(loginForm) # NoAlert
       THEN /\ alert' = ValidateValidation(loginForm)
            /\ posted' = NoPosted
            /\ UNCHANGED <<loginForm, pending>>
       ELSE /\ Len(pending.generateOtp) + Len(pending.validateOtp) < MaxInFlight
            /\ alert' = NoAlert
            /\ loginForm' = [loginForm EXCEPT !.loading = TRUE]
            /\ pending' = [pending EXCEPT !.validateOtp =
                  Append(@, [Request("fetch",
                               [mobile_number |-> loginForm.mobileNumber,
                                otp |-> loginForm.otp])
                             EXCEPT !.sent = 1])]
            /\ posted' = [op |-> "validateOTP", token |-> Null,
                          request |-> [mobile_number |-> loginForm.mobileNumber,
                                       otp |-> loginForm.otp]]
    /\ last' = [NoLast EXCEPT !.op = "LoginScreen.handleValidateOtp"]
    /\ UNCHANGED <<sessionVars, mounted, uploadForm, searchForm, downloading>>

\* handleValidateOtp after `await validateOTP(...)`: to its end, or into
\* signIn up to its `await AsyncStorage.setItem`.
LoginValidateAnswer(resp) ==
    /\ mounted = "Login"
    /\ pending.validateOtp # <<>>
    /\ Head(pending.validateOtp).pc = "fetch"
    /\ LET r == validateOTP(resp.transportOk, resp.body)
       IN /\ IF ValidateAccepted(r)
             THEN /\ alert' = NoAlert
                  /\ pending' = [pending EXCEPT !.validateOtp =
                        <<[Head(@) EXCEPT !.pc = "signIn", !.token = r.token]>>
                        \o Tail(@)]
                  /\ UNCHANGED loginForm
             ELSE /\ alert' = ValidateOtpAlert(r)
                  /\ pending' = [pending EXCEPT !.validateOtp = Tail(@)]
                  /\ loginForm' = [loginForm EXCEPT !.loading = FALSE]
          /\ last' = [NoLast EXCEPT !.op = "validateOTP", !.kind = r.kind,
                                    !.success = r.success, !.token = r.token,
                                    !.message = r.message, !.sent = 1]
    /\ posted' = NoPosted
    /\ UNCHANGED <<sessionVars, mounted, uploadForm, searchForm, downloading>>

\* signIn from its settled setItem to its end, then handleValidateOtp to its
\* end; the navigator unmounts the login screen once a token is held.
LoginSignInDone ==
    /\ mounted = "Login"
    /\ pending.validateOtp # <<>>
    /\ Head(pending.validateOtp).pc = "signIn"
    /\ \E ok \in BOOLEAN :
        LET op == [StorageOp("setItem", "signIn", 0, Head(pending.validateOtp).token)
                     EXCEPT !.status = IF ok THEN "resolved" ELSE "rejected"]
        IN /\ store' = IF ok THEN StoreAfter(op, store) ELSE store
           /\ userToken' = SignInUserToken(op, userToken)
           /\ alert' = SignInAlert(op)
    /\ stack' = Navigator(stack, userToken', isLoading)
    /\ mounted' = IF Mounted("Login", stack') THEN "Login" ELSE "none"
    /\ loginForm' = IF Mounted("Login", stack')
                    THEN [loginForm EXCEPT !.loading = FALSE] ELSE LoginFormInit
    /\ pending' = [pending EXCEPT !.validateOtp = Tail(@)]
    /\ last' = [NoLast EXCEPT !.op = "signIn"]
    /\ posted' = NoPosted
    /\ UNCHANGED <<storageQ, isLoading, login, calls, settled, upload, search,
                   done, prior, uploadForm, searchForm, downloading>>

\* ----------------------------------------------------------- PreviewScreen
\* handleDownload of a document with a file_url, up to the await.
DownloadPress ==
    /\ mounted = "Preview"
    /\ ~Disabled(downloading)
    /\ Len(pending.download) < MaxInFlight
    /\ downloading' = TRUE
    /\ pending' = [pending EXCEPT !.download = Append(@, Request("fetch", <<>>))]
    /\ Ran("PreviewScreen.handleDownload")
    /\ UNCHANGED <<sessionVars, mounted, loginForm, uploadForm, searchForm>>

\* handleDownload after the await.
DownloadAnswer(res) ==
    /\ mounted = "Preview"
    /\ pending.download # <<>>
    /\ downloading' = FALSE
    /\ alert' = DownloadAlert(res)
    /\ last' = [NoLast EXCEPT !.op = "downloadFile",
                              !.kind = IF res.ok THEN "result" ELSE "fault",
                              !.success = res.ok /\ res.statusCode = 200,
                              !.sent = 1]
    /\ pending' = [pending EXCEPT !.download = Tail(@)]
    /\ posted' = NoPosted
    /\ UNCHANGED <<sessionVars, mounted, loginForm, uploadForm, searchForm>>

\* -------------------------------------------------------- form process
\* One instance of one screen, mounted in a session in which that screen can
\* be shown.
InitForms ==
    /\ mounted \in {"Login", "Upload", "Search", "Preview"}
    /\ userToken = IF mounted = "Login" THEN Null ELSE "abc"
    /\ store \in (IF mounted = "Login" THEN {Null} ELSE {Null, "abc"})
    /\ stack = IF mounted = "Login" THEN <<"Login">>
               ELSE IF mounted = "Preview" THEN <<"Home", "Search", "Preview">>
               ELSE <<"Home", mounted>>
    /\ storageQ = <<>>
    /\ isLoading = FALSE
    /\ alert = NoAlert
    /\ login = LoginInit
    /\ calls = [c \in 1..MaxCalls |-> NoCall]
    /\ settled = NoSettled
    /\ upload = UploadInit
    /\ search = SearchInit
    /\ done = NoDone
    /\ prior = NoDone
    /\ loginForm = LoginFormInit
    /\ \E now \in Dates : uploadForm = UploadFormInit(now)
    /\ searchForm = SearchFormInit
    /\ downloading = FALSE
    /\ pending = NoPending
    /\ posted = NoPosted
    /\ last = NoLast

NextForms ==
    \/ \E d \in Dates : UploadPickDate(d)
    \/ UploadPickFile
    \/ \E m \in MajorHeads \cup {""} : UploadSetMajor(m)
    \/ \E n \in {"", "Tom", "HR"} : UploadSetMinor(n)
    \/ \E r \in {"", "scan"} : UploadEnterRemarks(r)
    \/ \E t \in TypedTags : UploadEnterTag(t)
    \/ UploadAddTag
    \/ \E t \in SuggestedTags : UploadTapSuggestion(t)
    \/ \E t \in SuggestedTags : UploadRemoveTag(t)
    \/ UploadSubmit
    \/ UploadTokenRead
    \/ \E resp \in DocResponses : UploadAnswer(resp)
    \/ \E m \in MajorHeads \cup {""} : SearchSetMajor(m)
    \/ \E n \in {"", "Tom", "HR"} : SearchSetMinor(n)
    \/ \E t \in TypedTags : SearchEnterTag(t)
    \/ SearchAddTag
    \/ \E t \in SuggestedTags : SearchTapSuggestion(t)
    \/ \E t \in SuggestedTags : SearchRemoveTag(t)
    \/ SearchSubmit
    \/ SearchTokenRead
    \/ \E resp \in DocResponses : SearchAnswer(resp)
    \/ \E m \in TypedMobiles : LoginEnterMobile(m)
    \/ \E o \in TypedOtps : LoginEnterOtp(o)
    \/ LoginGenerate
    \/ \E resp \in AuthResponses : LoginGenerateAnswer(resp)
    \/ LoginResend
    \/ LoginValidate
    \/ \E resp \in AuthResponses : LoginValidateAnswer(resp)
    \/ LoginSignInDone
    \/ DownloadPress
    \/ \E res \in DownloadResults : DownloadAnswer(res)

SpecForms == InitForms /\ [][NextForms]_vars

\* The followed screen reduced to what its submit controls need: the fields a
\* submit requires, the submit handlers and their continuations.
NextSubmit ==
    \/ UploadPickFile
    \/ \E m \in MajorHeads : UploadSetMajor(m)
    \/ \E n \in {"Tom", "HR"} : UploadSetMinor(n)
    \/ \E t \in {<<"a">>} : UploadTapSuggestion(t)
    \/ UploadSubmit
    \/ UploadTokenRead
    \/ \E resp \in DocResponses : UploadAnswer(resp)
    \/ SearchSubmit
    \/ SearchTokenRead
    \/ \E resp \in DocResponses : SearchAnswer(resp)
    \/ \E m \in TypedMobiles : LoginEnterMobile(m)
    \/ \E o \in TypedOtps : LoginEnterOtp(o)
    \/ LoginGenerate
    \/ \E resp \in AuthResponses : LoginGenerateAnswer(resp)
    \/ LoginResend
    \/ LoginValidate
    \/ \E resp \in AuthResponses : LoginValidateAnswer(resp)
    \/ LoginSignInDone
    \/ DownloadPress
    \/ \E res \in DownloadResults : DownloadAnswer(res)

\* Every started read, request and write comes back: the event loop runs each
\* continuation once its promise has settled.
SpecSubmit ==
    /\ InitForms /\ [][NextSubmit]_vars
    /\ WF_vars(UploadTokenRead)
    /\ WF_vars(\E resp \in DocResponses : UploadAnswer(resp))
    /\ WF_vars(SearchTokenRead)
    /\ WF_vars(\E resp \in DocResponses : SearchAnswer(resp))
    /\ WF_vars(\E resp \in AuthResponses : LoginGenerateAnswer(resp))
    /\ WF_vars(\E resp \in AuthResponses : LoginValidateAnswer(resp))
    /\ WF_vars(LoginSignInDone)
    /\ WF_vars(\E res \in DownloadResults : DownloadAnswer(res))

\* ================================================================== claims
\* The calls of DocumentService.
DocumentOps == {"uploadDocument", "fetchDocumentTags", "searchDocuments"}

LoadPending == \E i \in 1..Len(storageQ) : storageQ[i].owner = "loadToken"

\* C1: a DocumentService call that reads a store holding no token ends with
\* the missing-session fault and issues no request, and a request is issued
\* only with a non-empty token read from the store.
C1_MissingSessionFault ==
    /\ (settled.op \in DocumentOps /\ ~settled.held) =>
            /\ settled.kind = "fault"
            /\ settled.message = MissingSession
            /\ ~settled.sent
    /\ \A c \in 1..MaxCalls : calls[c].pc = "fetch" => Truthy(calls[c].token)

\* The part of C1 the code keeps: without a token read from the store the
\* call ends in a fault and no request goes out.
C1_NoRequestWithoutToken ==
    /\ (settled.op \in DocumentOps /\ ~settled.held) =>
            /\ settled.kind = "fault"
            /\ settled.message \in {MissingSession, StorageError}
            /\ ~settled.sent
    /\ \A c \in 1..MaxCalls : calls[c].pc = "fetch" => Truthy(calls[c].token)

C1_Witness ==
    /\ settled.op \in DocumentOps /\ ~settled.held
    /\ settled.message = MissingSession

\* C2 as claimed: once signIn(t) has completed, a fresh load (restart, then
\* loadToken) yields t.
C2_FreshLoadYieldsToken ==
    (prior.op = "signIn" /\ done.op = "loadToken") => userToken = prior.arg

\* C2 amended: once a signIn(t) whose write succeeded has completed, a fresh
\* load whose read succeeds yields t, and the shell is Authenticated.
C2_FreshLoadAfterStoredSignIn ==
    (prior.op = "signIn" /\ prior.status = "resolved"
        /\ done.op = "loadToken" /\ done.status = "resolved") =>
            /\ userToken = prior.arg
            /\ shell = "Authenticated"

C2_Witness ==
    /\ prior.op = "signIn" /\ prior.status = "resolved"
    /\ done.op = "loadToken" /\ done.status = "resolved"
    /\ userToken = prior.arg

\* C3 as claimed: once signOut() has completed, a fresh load yields no token
\* and the restarted app is Unauthenticated.
C3_FreshLoadYieldsAbsence ==
    (prior.op = "signOut" /\ done.op = "loadToken") =>
        ~Truthy(userToken) /\ shell = "Unauthenticated"

\* C3 amended: once a signOut() whose removal succeeded has completed, with
\* no signIn under way at that moment, a fresh load yields no token and the
\* restarted app is Unauthenticated.
C3_FreshLoadAfterRemoval ==
    (prior.op = "signOut" /\ prior.status = "resolved" /\ ~prior.writeQueued
        /\ done.op = "loadToken") =>
            ~Truthy(userToken) /\ shell = "Unauthenticated"

C3_Witness ==
    /\ prior.op = "signOut" /\ prior.status = "resolved" /\ ~prior.writeQueued
    /\ Truthy(prior.tokenBefore)
    /\ done.op = "loadToken" /\ done.status = "resolved"
    /\ shell = "Unauthenticated"
\* C4: the shell is Loading, with no screen stack, from the start until the
\* initial load resolves; resolved with a token it is Authenticated, resolved
\* with none it is Unauthenticated.
C4_ShellFollowsLoad ==
    /\ LoadPending => (shell = "Loading" /\ stack = <<>>)
    /\ shell = "Loading" => LoadPending
    /\ (done.op = "loadToken" /\ done.status = "resolved" /\ Truthy(done.arg)) =>
            (shell = "Authenticated" /\ userToken = done.arg)
    /\ (done.op = "loadToken" /\ done.status = "resolved" /\ ~Truthy(done.arg)) =>
            shell = "Unauthenticated"

C4_Witness ==
    /\ done.op = "loadToken" /\ done.status = "resolved" /\ Truthy(done.arg)
    /\ shell = "Authenticated" /\ stack = <<"Home">>

\* C5: Home, Upload, Search and Preview are mounted only with a token in
\* memory and the load finished; Login only with no token in memory and the
\* load finished; nothing is mounted while loading.
C5_ScreensFollowSession ==
    /\ \A s \in AuthScreens :
          Mounted(s, stack) => (Truthy(userToken) /\ ~isLoading)
    /\ Mounted("Login", stack) => (~Truthy(userToken) /\ ~isLoading)
    /\ isLoading => stack = <<>>

C5_Witness ==
    /\ Mounted("Preview", stack) /\ Mounted("Search", stack)
    /\ Truthy(userToken) /\ ~isLoading

\* C6: within one run of the process the shell changes only Loading ->
\* Authenticated / Unauthenticated when the load completes, Unauthenticated ->
\* Authenticated when a signIn completes whose write succeeded, and
\* Authenticated -> Unauthenticated when a signOut completes; no other step
\* changes it, and Loading is not re-entered.
C6_ShellTransitions ==
    [][shell' # shell =>
        \/ done'.op = "restart"
        \/ /\ shell = "Loading"
           /\ done'.op = "loadToken"
        \/ /\ shell = "Unauthenticated" /\ shell' = "Authenticated"
           /\ done'.op = "signIn" /\ done'.status = "resolved"
        \/ /\ shell = "Authenticated" /\ shell' = "Unauthenticated"
           /\ done'.op = "signOut"]_vars

C6_Witness ==
    /\ done.op = "signOut" /\ done.shellBefore = "Authenticated"
    /\ shell = "Unauthenticated"

\* C7 as claimed: when the login screen has redeemed a code (the server
\* answered success with a non-empty token t, so signIn(t) ran), the session
\* is Authenticated with t and the store holds t.
C7_RedeemedMeansAuthenticated ==
    done.op = "signIn" =>
        (userToken = done.arg /\ shell = "Authenticated" /\ store = done.arg)

\* C7 amended: the same, when the write of t to the store succeeded; when it
\* failed the session stays Unauthenticated.
C7_RedeemedAndStored ==
    /\ (done.op = "signIn" /\ done.status = "resolved") =>
            (userToken = done.arg /\ shell = "Authenticated" /\ store = done.arg)
    /\ (done.op = "signIn" /\ done.status = "rejected") =>
            shell = "Unauthenticated"

C7_Witness ==
    /\ done.op = "signIn" /\ done.status = "resolved"
    /\ userToken = done.arg /\ store = done.arg /\ stack = <<"Home">>

\* C8: a signIn whose write fails and a signOut whose removal fails are
\* no-ops: the token in memory and the shell are as before, and the caller
\* sees no fault.
C8_StorageFailureIsNoOp ==
    (done.op \in {"signIn", "signOut"} /\ done.status = "rejected") =>
        /\ userToken = done.tokenBefore
        /\ shell = done.shellBefore
        /\ ~done.rejects
        /\ done.op = "signIn" => alert.title # "Error"

C8_Witness ==
    /\ done.op = "signOut" /\ done.status = "rejected"
    /\ shell = "Authenticated" /\ Truthy(userToken)

\* C9: when the initial read of the store fails, the token in memory stays
\* absent, the loading flag becomes false and the shell is Unauthenticated.
C9_LoadFailureIsNoToken ==
    (done.op = "loadToken" /\ done.status = "rejected") =>
        /\ userToken = Null
        /\ ~isLoading
        /\ shell = "Unauthenticated"

C9_Witness ==
    /\ done.op = "loadToken" /\ done.status = "rejected"
    /\ Truthy(store) /\ shell = "Unauthenticated" /\ stack = <<"Login">>

\* C10: every answer with a non-2xx status makes the call throw, with the
\* server's message when the answer has one and "API error: <status>"
\* otherwise; it is never returned as a result.
C10_NonOkFaultMessage ==
    (settled.sent /\ settled.status # 0 /\ ~ResponseOk(settled.status)) =>
        /\ settled.kind = "fault"
        /\ settled.message =
              JsOr(settled.serverMessage,
                   "API error: " \o ToString(settled.status))

\* The part of C10 the code keeps: a non-2xx answer is never a result.
C10_NonOkNeverReturned ==
    (settled.sent /\ settled.status # 0 /\ ~ResponseOk(settled.status)) =>
        settled.kind = "fault"

\* C11: generateOTP and validateOTP throw one kind of fault, the fixed
\* message of the operation, on a transport failure and on a body that does
\* not decode alike; a body that decodes is returned as it is.
C11_AuthServiceFaults ==
    \A op \in {"generateOTP", "validateOTP"} :
        settled.op = op =>
            /\ settled.cause \in {"transport", "undecodable"} =>
                  /\ settled.kind = "fault"
                  /\ settled.message =
                        IF op = "generateOTP" THEN GenerateOtpFailed
                        ELSE ValidateOtpFailed
            /\ settled.cause = "decoded" =>
                  (settled.kind = "result" /\ settled.verbatim)
            /\ settled.kind = "fault" =>
                  settled.cause \in {"transport", "undecodable"}

C11_Witness ==
    /\ settled.op = "validateOTP" /\ settled.cause = "undecodable"
    /\ settled.kind = "fault" /\ settled.message = ValidateOtpFailed

\* C12: every fault thrown by generateOTP, validateOTP, uploadDocument,
\* fetchDocumentTags or searchDocuments is caught by the handler awaiting the
\* call, which shows it to the user in an alert.
C12_FaultsShownAsAlert ==
    settled.kind = "fault" => alert.title # ""

\* The part of C12 the code keeps: every handler but SearchScreen's getTags
\* shows the fault in an alert that carries the fault's message.
C12_FaultsShownExceptSearchTags ==
    (settled.kind = "fault" /\ settled.caller # "SearchScreen.getTags") =>
        /\ alert.title # ""
        /\ alert.message \in {settled.message,
                              "Failed to fetch tags: " \o settled.message,
                              "An error occurred during download: "
                                  \o settled.message}

\* =========================================================== forms: claims
NoRepeat(tags) ==
    \A i, j \in 1..Len(tags) : i # j => tags[i] # tags[j]

NoRepeatAfterTrim(tags) ==
    \A i, j \in 1..Len(tags) : i # j => Trim(tags[i]) # Trim(tags[j])

\* C13 as stated: on both forms the selection never holds two tags that are
\* the same text after trimming, whether they were typed or tapped.
\* Violated: a suggestion is compared as received, so " a" is added next
\* to "a".
C13_NoDuplicateAfterTrim ==
    NoRepeatAfterTrim(uploadForm.tags) /\ NoRepeatAfterTrim(searchForm.tags)

\* C13, as the code has it: a typed tag that after trimming is already
\* selected leaves the selection as it is, and after every step no text
\* occurs twice in the selection of either form.
C13_NoDuplicateAsCompared ==
    [][/\ NoRepeat(uploadForm'.tags)
       /\ NoRepeat(searchForm'.tags)
       /\ (last'.op = "UploadScreen.handleAddTag"
             /\ Includes(uploadForm.tags, Trim(uploadForm.newTag)))
            => uploadForm'.tags = uploadForm.tags
       /\ (last'.op = "SearchScreen.handleAddTag"
             /\ Includes(searchForm.tags, Trim(searchForm.newTag)))
            => searchForm'.tags = searchForm.tags]_vars

\* A typed tag was refused on a selection of two: the input keeps its text.
C13_Witness ==
    /\ last.op = "SearchScreen.handleAddTag"
    /\ Len(searchForm.tags) = 2
    /\ Includes(searchForm.tags, Trim(searchForm.newTag))

\* C14 as stated: on the upload form and on the search form a change of the
\* major category leaves the minor category empty.  Violated on the search
\* form, whose picker only sets the major category.
C14_MajorChangeClearsMinor ==
    [][/\ uploadForm'.majorHead # uploadForm.majorHead
            => uploadForm'.minorHead = ""
       /\ searchForm'.majorHead # searchForm.majorHead
            => searchForm'.minorHead = ""]_vars

\* C14 on the upload form alone.
C14_UploadMajorChangeClearsMinor ==
    [][uploadForm'.majorHead # uploadForm.majorHead
            => uploadForm'.minorHead = ""]_vars

\* The last step ended an upload without success.
UploadFailed(l) ==
    l.op = "uploadDocument" /\ (l.kind = "fault" \/ ~l.success)

SearchSucceeded(l) ==
    l.op = "searchDocuments" /\ l.kind = "result" /\ l.success /\ l.isArray

\* C17: a search that returns {success: true, data: []} raises the
\* 'No Results' notice and leaves an empty list; a search raises an error
\* alert exactly when it ends in a fault or returns a body without
\* success: true or without a data array.
C17_EmptyResultIsNotice ==
    last.op = "searchDocuments" =>
        /\ (SearchSucceeded(last) /\ last.data = <<>>) =>
              /\ alert = [title |-> "No Results",
                          message |-> "No documents found matching your criteria."]
              /\ searchForm.searchResults = <<>>
        /\ alert.title \in {"Search Error", "Search Failed"}
              <=> ~SearchSucceeded(last)

C17_Witness ==
    /\ SearchSucceeded(last) /\ last.data = <<>>
    /\ alert.title = "No Results"
    /\ searchForm.searchResults = <<>>

\* C18: after a search that returns {success: true, data: D} the list shown
\* is D, and after any other search it is empty.
C18_ResultsAsReturned ==
    last.op = "searchDocuments" =>
        searchForm.searchResults =
            IF SearchSucceeded(last) THEN last.data ELSE <<>>

\* A page of two records came back for a search without a major category.
C18_Witness ==
    /\ SearchSucceeded(last)
    /\ searchForm.majorHead = ""
    /\ searchForm.searchResults = <<"d2", "d1">>

\* The requests of a control that are in flight.
InFlight(ctl) ==
    Len(SelectSeq(pending[ctl], LAMBDA r : r.pc \in {"getUserToken", "fetch"}))

\* C19: a control whose request is outstanding has its flag set, which
\* disables it, and no screen instance has two login requests (generate or
\* validate), two uploads, two searches or two downloads in flight.
C19_OneRequestPerControl ==
    /\ InFlight("generateOtp") + InFlight("validateOtp") <= 1
    /\ InFlight("upload") <= 1
    /\ InFlight("search") <= 1
    /\ InFlight("download") <= 1
    /\ (pending.generateOtp # <<>> \/ pending.validateOtp # <<>>)
          => loginForm.loading
    /\ pending.upload # <<>> => uploadForm.loading
    /\ pending.search # <<>> => searchForm.loading
    /\ pending.download # <<>> => downloading

\* A validate request is in flight after a generate request was answered.
C19_Witness ==
    /\ InFlight("validateOtp") = 1
    /\ loginForm.otpSent /\ loginForm.loading

\* =============================================================== session
\* C20: a signIn(t) that changes the token in memory does so in the step
\* that follows the completed write of t, with t in the store; a signOut
\* that changes it does so after the completed removal, with nothing in
\* the store.  So the shell turns Authenticated through signIn only with
\* the stored token, and Unauthenticated through signOut only with an
\* empty store.
C20_PersistedBeforeInMemory ==
    /\ (done.op = "signIn" /\ userToken # done.tokenBefore) =>
          /\ done.status = "resolved"
          /\ userToken = done.arg
          /\ store = done.arg
    /\ (done.op = "signOut" /\ userToken # done.tokenBefore) =>
          /\ done.status = "resolved"
          /\ userToken = Null
          /\ store = Null
    /\ (done.op = "signIn" /\ shell = "Authenticated"
          /\ done.shellBefore # "Authenticated") => store = userToken
    /\ (done.op = "signOut" /\ shell = "Unauthenticated"
          /\ done.shellBefore = "Authenticated") => ~Truthy(store)

\* A signOut took the shell from Authenticated to Unauthenticated.
C20_Witness ==
    /\ done.op = "signOut" /\ done.status = "resolved"
    /\ Truthy(done.tokenBefore) /\ userToken = Null /\ store = Null
    /\ done.shellBefore = "Authenticated" /\ shell = "Unauthenticated"

\* C21: the token in memory changes only in the step that completes the
\* initial load, a signIn or a signOut (or when the process is started
\* anew), the stored token only when the write of a signIn or the removal
\* of a signOut is executed, and the step in which an OTP request, an
\* upload, a tag listing, a search or a download ends changes neither.
C21_OnlySignInSignOutWrite ==
    [][/\ userToken' # userToken =>
            done'.op \in {"loadToken", "signIn", "signOut", "restart"}
       /\ store' # store =>
            /\ FirstPending # 0
            /\ storageQ[FirstPending].owner \in {"signIn", "signOut"}
       /\ settled'.op # "none" =>
            (userToken' = userToken /\ store' = store)]_vars

\* An upload was rejected with status 500 while signed in.
C21_Witness ==
    /\ settled.op = "uploadDocument" /\ settled.kind = "fault"
    /\ settled.sent /\ ~ResponseOk(settled.status)
    /\ Truthy(userToken) /\ store = userToken

\* The calls of the named AuthProvider operation that are in progress.
InProgress(owner) == {i \in 1..Len(storageQ) : storageQ[i].owner = owner}

\* C22 as stated: a signIn and a signOut are never in progress together,
\* and neither is in progress while the initial load is unresolved.
\* Violated: the sign-out button can be pressed twice; the first signOut
\* mounts the login screen, and a signIn can start while the second is
\* still in progress.
C22_NeverTogether ==
    /\ ~(InProgress("signIn") # {} /\ InProgress("signOut") # {})
    /\ LoadPending => (InProgress("signIn") = {} /\ InProgress("signOut") = {})

\* C22, as the code has it: neither is in progress while the initial load
\* is unresolved, the login and the home screen are never mounted together,
\* at most one signIn is in progress, and a signOut in progress together
\* with a signIn was started before it, so that its removal is executed and
\* delivered first.
C22_SignOutNeverBehindSignIn ==
    /\ LoadPending => (InProgress("signIn") = {} /\ InProgress("signOut") = {})
    /\ ~(Mounted("Login", stack) /\ Mounted("Home", stack))
    /\ Cardinality(InProgress("signIn")) <= 1
    /\ \A i \in InProgress("signIn") : \A j \in InProgress("signOut") : j < i
    /\ InProgress("signIn") # {} => Mounted("Login", stack)

\* A signIn was started while a second signOut is still in progress.
C22_Witness ==
    /\ InProgress("signIn") # {} /\ InProgress("signOut") # {}
    /\ Mounted("Login", stack)

\* ---------------------------------------------------------------------------
\* C23: a request leaves the upload and login screens only with its required
\* fields (upload: a file, a major and a minor category, at least one tag;
\* generate-OTP: a non-empty mobile number; validate-OTP: a non-empty mobile
\* number and code).  A submit with a field missing raises the validation
\* alert, sends nothing, and leaves the loading flag and every form field as
\* they were.
UploadFieldMissing(form) ==
    \/ form.selectedFile = Null
    \/ ~Truthy(form.majorHead) \/ ~Truthy(form.minorHead)
    \/ Len(form.tags) = 0

C23_RequiredFields ==
    [][/\ \A i \in 1..Len(pending'.upload) :
            ~UploadFieldMissing(
                [selectedFile |-> pending'.upload[i].request.file,
                 majorHead |-> pending'.upload[i].request.major_head,
                 minorHead |-> pending'.upload[i].request.minor_head,
                 tags |-> pending'.upload[i].request.tags])
       /\ posted'.op = "generateOTP" => Truthy(posted'.request.mobile_number)
       /\ posted'.op = "validateOTP" =>
            Truthy(posted'.request.mobile_number) /\ Truthy(posted'.request.otp)
       /\ alert'.title \in {"Validation Error", "Input Error"} =>
            /\ posted' = NoPosted
            /\ pending' = pending
            /\ uploadForm' = uploadForm
            /\ loginForm' = loginForm
       /\ (last'.op = "UploadScreen.handleSubmit" /\ UploadFieldMissing(uploadForm))
            => alert'.title = "Validation Error"
       /\ (last'.op = "LoginScreen.handleGenerateOtp"
              /\ ~Truthy(loginForm.mobileNumber))
            => alert' = [title |-> "Input Error",
                         message |-> "Please enter your mobile number."]
       /\ (last'.op = "LoginScreen.handleValidateOtp"
              /\ (~Truthy(loginForm.mobileNumber) \/ ~Truthy(loginForm.otp)))
            => alert' = [title |-> "Input Error",
                         message |-> "Please enter both mobile number and OTP."]
      ]_vars

C23_Witness ==
    /\ last.op = "UploadScreen.handleSubmit"
    /\ alert = [title |-> "Validation Error",
                message |-> "Please add at least one tag."]
    /\ uploadForm.selectedFile # Null
    /\ Truthy(uploadForm.minorHead)
    /\ ~uploadForm.loading
    /\ pending.upload = <<>>

\* ---------------------------------------------------------------------------
\* C24: on the login, upload, search and preview screens the loading (or
\* downloading) flag is true exactly while a call started by the screen's
\* submit control is outstanding, and when every started call comes back the
\* flag always returns to false.
LoadingIffOutstanding ==
    /\ uploadForm.loading <=> pending.upload # <<>>
    /\ searchForm.loading <=> pending.search # <<>>
    /\ loginForm.loading <=>
          (pending.generateOtp # <<>> \/ pending.validateOtp # <<>>)
    /\ downloading <=> pending.download # <<>>

C24_LoadingWhileOutstanding ==
    /\ []LoadingIffOutstanding
    /\ (uploadForm.loading ~> ~uploadForm.loading)
    /\ (searchForm.loading ~> ~searchForm.loading)
    /\ (loginForm.loading ~> ~loginForm.loading)
    /\ (downloading ~> ~downloading)

C24_Witness ==
    /\ last.op = "uploadDocument"
    /\ last.kind = "fault"
    /\ last.sent = 1
    /\ ~uploadForm.loading
    /\ pending.upload = <<>>

\* ---------------------------------------------------------------------------
\* C25: the login screen calls signIn if and only if the validate-OTP
\* response has success true and a non-empty token, and then with that
\* token; for every other response the session stays Unauthenticated,
\* nothing is written to the persisted store and an error alert is shown.
SignInStarted(p) ==
    p.validateOtp # <<>> /\ Head(p.validateOtp).pc = "signIn"

C25_SignInIffAccepted ==
    [][last'.op = "validateOTP" =>
         /\ SignInStarted(pending') <=>
               (last'.kind = "object" /\ last'.success /\ Truthy(last'.token))
         /\ SignInStarted(pending') =>
               Head(pending'.validateOtp).token = last'.token
         /\ ~SignInStarted(pending') =>
               /\ userToken' = Null
               /\ store' = store
               /\ pending'.validateOtp = <<>>
               /\ alert'.title = "Error"
               /\ Mounted("Login", stack')
      ]_vars

C25_Witness ==
    /\ last.op = "validateOTP"
    /\ last.kind = "object"
    /\ last.success
    /\ ~Truthy(last.token)
    /\ alert = [title |-> "Error", message |-> "Invalid OTP. Please try again."]
    /\ userToken = Null
    /\ store = Null

\* ---------------------------------------------------------------------------
\* C26: the YYYY-MM-DD string sent as document_date denotes the calendar date
\* picked and shown on the form in local time, for every time zone and time
\* of day.
C26_SentDateIsLocalDate ==
    [][(last'.op = "UploadScreen.handleSubmit" /\ pending'.upload # <<>>) =>
         pending'.upload[Len(pending'.upload)].request.document_date
           = uploadForm.documentDate.localDay]_vars

\* The date sent is the UTC day of the picked instant.
C26_SentDateIsUtcDate ==
    [][(last'.op = "UploadScreen.handleSubmit" /\ pending'.upload # <<>>) =>
         pending'.upload[Len(pending'.upload)].request.document_date
           = uploadForm.documentDate.utcDay]_vars

\* ---------------------------------------------------------------------------
\* C27: the minor_head of every search request is empty or one of the minor
\* categories of the request's own major_head; with an empty major_head it is
\* empty.
MinorBelongs(request) ==
    \/ request.minor_head = ""
    \/ /\ request.major_head \in MajorHeads
       /\ request.minor_head \in MinorHeadOptions(request.major_head)

C27_SearchMinorBelongsToMajor ==
    \A i \in 1..Len(pending.search) : MinorBelongs(pending.search[i].request)

\* What the search form does guarantee: the minor category sent is empty or
\* one that some major category offers.
C27_SearchMinorIsSomeOption ==
    \A i \in 1..Len(pending.search) :
        \/ pending.search[i].request.minor_head = ""
        \/ \E m \in MajorHeads :
              pending.search[i].request.minor_head \in MinorHeadOptions(m)

\* ---------------------------------------------------------------------------
\* C28: in every quiescent state (initial load finished, no signIn or signOut
\* in progress) the in-memory token equals the persisted token, also after
\* failed storage operations.
Quiescent ==
    /\ ~isLoading
    /\ ~LoadPending
    /\ InProgress("signIn") = {}
    /\ InProgress("signOut") = {}

C28_MemoryEqualsStore == Quiescent => userToken = store

\* A token held in memory in a quiescent state is the persisted one.
C28_HeldTokenIsStored == (Quiescent /\ userToken # Null) => store = userToken

\* A signOut whose removal failed: the token stays in memory and in the store.
C28_Witness ==
    /\ Quiescent
    /\ done.op = "signOut"
    /\ done.status = "rejected"
    /\ userToken = "abc"
    /\ store = "abc"

\* The initial read failed with a token stored.
C28_FailedLoad ==
    /\ Quiescent
    /\ done.op = "loadToken"
    /\ done.status = "rejected"
    /\ userToken = Null
    /\ store = "abc"

\* ---------------------------------------------------------------------------
\* C29: 'Login successful!' is shown only when the session is Authenticated:
\* the in-memory token equals the token the server returned and that token is
\* in the persisted store.
LoginSuccessful == [title |-> "Success", message |-> "Login successful!"]

C29_SuccessMeansAuthenticated ==
    alert = LoginSuccessful =>
        /\ done.op = "signIn"
        /\ userToken = done.arg
        /\ store = done.arg

\* The alert does follow every signIn that returned, with its token either
\* held and stored or neither.
C29_SuccessFollowsSignIn ==
    alert = LoginSuccessful =>
        /\ done.op = "signIn"
        /\ Truthy(done.arg)
        /\ done.status = "resolved" => (userToken = done.arg /\ store = done.arg)
        /\ done.status = "rejected" => userToken = Null

\* ---------------------------------------------------------------------------
\* C30: a validate-OTP request is issued only after a generate-OTP request
\* succeeded and carries the mobile number of the most recent successful
\* generate-OTP request; the number cannot be edited while a code is
\* outstanding or a request is in flight, as long as the login screen is
\* mounted; Resend clears the entered code, and after it only a new successful
\* generate-OTP allows a further validate.
C30_ValidateAfterGenerate ==
    [][/\ posted'.op = "validateOTP" =>
            /\ loginForm.otpSent
            /\ Truthy(loginForm.otpFor)
            /\ posted'.request.mobile_number = loginForm.otpFor
       /\ (mounted' = "Login" /\ (loginForm.otpSent \/ loginForm.loading)) =>
            loginForm'.mobileNumber = loginForm.mobileNumber
       /\ last'.op = "LoginScreen.resend.onPress" =>
            /\ ~loginForm'.otpSent
            /\ loginForm'.otp = ""
            /\ loginForm'.mobileNumber = loginForm.mobileNumber
       /\ (loginForm'.otpSent /\ ~loginForm.otpSent) =>
            /\ last'.op = "generateOTP"
            /\ last'.kind = "object" /\ last'.success
            /\ loginForm'.otpFor = loginForm.mobileNumber
      ]_vars

\* A validate-OTP request sent after Resend, a changed number and a second
\* successful generate-OTP.
C30_Witness ==
    /\ posted.op = "validateOTP"
    /\ posted.request.mobile_number = "8888888888"
    /\ loginForm.otpFor = "8888888888"
    /\ loginForm.loading
====
